---- MODULE Spec2Model ----
(***************************************************************************)
(* A model of the colorful crate: the RGB24 hexadecimal codec              *)
(* (color_models/rgb/rgb24.rs), the numeric helpers (number_utils.rs), HSV *)
(* (models/hsv.rs), RGB48 (models/rgb/rgb48.rs) and the conversions        *)
(* between them (converter.rs).                                            *)
(*                                                                         *)
(* The library is a set of pure functions over value types.  Each function *)
(* is an operator computed the way the code computes it; the state machine *)
(* is a client that holds a colour, a string or a tuple of floats and      *)
(* applies one library call per step.                                      *)
(***************************************************************************)
EXTENDS Integers, Sequences, FiniteSets, TLC

VARIABLES
    last,   \* name of the call made last ("input" / "from_rgb" before any call)
    rgb,    \* the RGB24 value held: <<>> (none) or <<[r, g, b]>>
    hex,    \* the string held, a sequence of one-character strings
    via,    \* where hex comes from: "none", "input", "to_hex", "to_hex_short"
    out,    \* what the last RGB24::from_hex call returned (or how it panicked)
    fargs,  \* the f64 arguments held for the next numeric call (<<>>: none)
    fres,   \* what the last number_utils call returned: <<>> or <<value>>
    hsv,    \* the HSV value a call returned or a setter changed (or the panic)
    wide,   \* the RGB48 value held: <<>> (none) or <<[r, g, b]>>
    arg     \* the integer argument of the last setter call: <<>> or <<value>>

vars == <<last, rgb, hex, via, out, fargs, fres, hsv, wide, arg>>

\* -------------------------------------------------------------------------
\* Bounds of the model
\* -------------------------------------------------------------------------

\* Every string over SmallAlphabet up to this length is an input of from_hex.
ShortLen == 4

\* Longest string given to from_hex (nine hex digits can exceed a u32).
MaxHexLen == 9

\* -------------------------------------------------------------------------
\* Characters and strings
\* -------------------------------------------------------------------------

LowerDigits == <<"0", "1", "2", "3", "4", "5", "6", "7", "8", "9",
                 "a", "b", "c", "d", "e", "f">>

UpperLetters == <<"A", "B", "C", "D", "E", "F">>

\* The 22 characters char::to_digit(16) accepts.
HexChars == {LowerDigits[i] : i \in 1..16} \cup {UpperLetters[i] : i \in 1..6}

\* Hex digits of both cases, both signs, and two characters that are no digits.
SmallAlphabet == {"0", "9", "f", "F", "g", "#", "+", "-"}

\* char::to_digit(16): the digit's value, -1 for None.
to_digit(c) ==
    IF \E i \in 1..16 : LowerDigits[i] = c
    THEN (CHOOSE i \in 1..16 : LowerDigits[i] = c) - 1
    ELSE IF \E i \in 1..6 : UpperLetters[i] = c
         THEN (CHOOSE i \in 1..6 : UpperLetters[i] = c) + 9
         ELSE -1

RECURSIVE Strings(_, _)
\* All strings of length n over alphabet.
Strings(alphabet, n) ==
    IF n = 0 THEN {<<>>}
    ELSE {Append(s, c) : s \in Strings(alphabet, n - 1), c \in alphabet}

RECURSIVE Repeat(_, _)
Repeat(c, n) == IF n <= 0 THEN <<>> ELSE <<c>> \o Repeat(c, n - 1)

\* -------------------------------------------------------------------------
\* u32 and u32::from_str_radix
\* -------------------------------------------------------------------------

\* A u32 is kept as two 16-bit halves: its value is hi * HalfWord + lo.
HalfWord == 256 * 256

U32(hi, lo) == [hi |-> hi, lo |-> lo]

\* The value of a u32 below 2^31 as an integer.
U32ToInt(u) == u.hi * HalfWord + u.lo

ParseOk(u) == [ok |-> TRUE, value |-> u, kind |-> "none"]
ParseErr(kind) == [ok |-> FALSE, value |-> U32(0, 0), kind |-> kind]

RECURSIVE ParseDigits(_, _)
\* The digit loop of from_str_radix: result = result * 16 + digit, checked.
ParseDigits(digits, acc) ==
    IF digits = <<>> THEN ParseOk(acc)
    ELSE LET x == to_digit(Head(digits))
             lo16 == acc.lo * 16 + x
             hi16 == acc.hi * 16 + (lo16 \div HalfWord)
         IN IF x < 0 THEN ParseErr("InvalidDigit")
            ELSE IF hi16 >= HalfWord THEN ParseErr("PosOverflow")
            ELSE ParseDigits(Tail(digits), U32(hi16, lo16 % HalfWord))

\* u32::from_str_radix(src, 16): an empty string is an error, a lone sign is
\* an error, one leading "+" is skipped (the type is unsigned, so a "-" is
\* left in place and is no digit), then the digits are accumulated.
from_str_radix(src) ==
    IF src = <<>> THEN ParseErr("Empty")
    ELSE IF Len(src) = 1 /\ Head(src) \in {"+", "-"} THEN ParseErr("InvalidDigit")
    ELSE IF Head(src) = "+" THEN ParseDigits(Tail(src), U32(0, 0))
    ELSE ParseDigits(src, U32(0, 0))

\* -------------------------------------------------------------------------
\* f64
\* -------------------------------------------------------------------------
\* An f64 is NaN, an infinity, or the finite value sg * (n / d) * 2^(-100 * e)
\* with sg the sign bit (a zero keeps its sign), n / d a reduced fraction and
\* e = 0 for the values of ordinary size, e >= 1 for values far below the
\* precision of any ordinary value (2^-100 and its small multiples).  The
\* inputs are small dyadic fractions, for which IEEE arithmetic is exact
\* except where a value with e >= 1 meets a value with e = 0: there the sum
\* rounds to the ordinary value (round to nearest), as the hardware does.
\* The few decimal inputs (0.2, 1.1) stand for the f64 next to them and are
\* used only where the result is far from a rounding boundary.  The same
\* holds of the channel fractions c / 255 and c / 65535 of the converter:
\* they are kept as exact fractions, the f64 values being within a few ulp
\* of them; the comparisons the converter makes on them are between values
\* that are equal or differ by far more than that, and the final rounding to
\* a channel is of a value within a few ulp of an integer.

RECURSIVE GCD(_, _)
GCD(a, b) == IF b = 0 THEN a ELSE GCD(b, a % b)

NAN == [k |-> "nan", sg |-> 1, n |-> 0, d |-> 1, e |-> 0]
INFINITY == [k |-> "inf", sg |-> 1, n |-> 0, d |-> 1, e |-> 0]
NEG_INFINITY == [k |-> "inf", sg |-> -1, n |-> 0, d |-> 1, e |-> 0]

\* The finite value sg * n / d * 2^(-100 * e), reduced.
Fin(sg, n, d, e) ==
    IF n = 0 THEN [k |-> "fin", sg |-> sg, n |-> 0, d |-> 1, e |-> 0]
    ELSE LET g == GCD(n, d)
         IN [k |-> "fin", sg |-> sg, n |-> n \div g, d |-> d \div g, e |-> e]

\* The fraction p / q (q > 0) as an f64 of ordinary size.
Rat(p, q) == IF p < 0 THEN Fin(-1, -p, q, 0) ELSE Fin(1, p, q, 0)

\* An integer as f64 (`x as f64`).
AsF64(i) == Rat(i, 1)

NEG_ZERO == Fin(-1, 0, 1, 0)

\* 2^-100 and -(2^-100)
TINY == Fin(1, 1, 1, 1)
NEG_TINY == Fin(-1, 1, 1, 1)

is_nan(a) == a.k = "nan"
is_infinite(a) == a.k = "inf"
is_finite(a) == a.k = "fin"
is_sign_negative(a) == a.sg = -1
is_sign_positive(a) == a.sg = 1

IsZero(a) == a.k = "fin" /\ a.n = 0

\* -1, 0, 1: the sign of a value that is not NaN (both zeros give 0).
Signum(a) == IF IsZero(a) THEN 0 ELSE a.sg

RECURSIVE FracLt(_, _, _, _)
\* an / ad < bn / bd for numerators >= 0 and denominators > 0, by the
\* integer parts and then the reciprocals of the fractional parts, so that
\* no product is formed.
FracLt(an, ad, bn, bd) ==
    LET qa == an \div ad
        qb == bn \div bd
        ra == an % ad
        rb == bn % bd
    IN IF qa # qb THEN qa < qb
       ELSE IF ra = 0 THEN rb > 0
       ELSE IF rb = 0 THEN FALSE
       ELSE FracLt(bd, rb, ad, ra)

\* |a| < |b| for values that are not NaN.
MagLt(a, b) ==
    IF is_infinite(a) THEN FALSE
    ELSE IF is_infinite(b) THEN TRUE
    ELSE IF IsZero(b) THEN FALSE
    ELSE IF IsZero(a) THEN TRUE
    ELSE IF a.e # b.e THEN a.e > b.e
    ELSE FracLt(a.n, a.d, b.n, b.d)

\* The IEEE comparisons: every comparison with a NaN is false, -0.0 = 0.0.
FLt(a, b) ==
    /\ ~is_nan(a)
    /\ ~is_nan(b)
    /\ \/ Signum(a) < Signum(b)
       \/ Signum(a) = 1 /\ Signum(b) = 1 /\ MagLt(a, b)
       \/ Signum(a) = -1 /\ Signum(b) = -1 /\ MagLt(b, a)

FEq(a, b) == ~is_nan(a) /\ ~is_nan(b) /\ ~FLt(a, b) /\ ~FLt(b, a)
FLe(a, b) == FLt(a, b) \/ FEq(a, b)
FGt(a, b) == FLt(b, a)
FGe(a, b) == FLe(b, a)

\* -a flips the sign bit (NaN is kept as the one NaN of the model).
FNeg(a) == IF is_nan(a) THEN a ELSE [a EXCEPT !.sg = -a.sg]

\* f64::abs clears the sign bit.
FAbs(a) == [a EXCEPT !.sg = 1]

\* a * b
FMul(a, b) ==
    IF is_nan(a) \/ is_nan(b) THEN NAN
    ELSE IF is_infinite(a) \/ is_infinite(b)
         THEN IF IsZero(a) \/ IsZero(b) THEN NAN
              ELSE [k |-> "inf", sg |-> a.sg * b.sg, n |-> 0, d |-> 1, e |-> 0]
    ELSE LET g1 == GCD(a.n, b.d)
             g2 == GCD(b.n, a.d)
         IN IF a.n = 0 \/ b.n = 0 THEN Fin(a.sg * b.sg, 0, 1, 0)
            ELSE Fin(a.sg * b.sg, (a.n \div g1) * (b.n \div g2),
                     (a.d \div g2) * (b.d \div g1), a.e + b.e)

\* a / b
FDiv(a, b) ==
    IF is_nan(a) \/ is_nan(b) THEN NAN
    ELSE IF is_infinite(a)
         THEN IF is_infinite(b) THEN NAN
              ELSE [k |-> "inf", sg |-> a.sg * b.sg, n |-> 0, d |-> 1, e |-> 0]
    ELSE IF is_infinite(b) THEN Fin(a.sg * b.sg, 0, 1, 0)
    ELSE IF IsZero(b)
         THEN IF IsZero(a) THEN NAN
              ELSE [k |-> "inf", sg |-> a.sg * b.sg, n |-> 0, d |-> 1, e |-> 0]
    ELSE IF IsZero(a) THEN Fin(a.sg * b.sg, 0, 1, 0)
    ELSE LET g1 == GCD(a.n, b.n)
             g2 == GCD(b.d, a.d)
         IN Fin(a.sg * b.sg, (a.n \div g1) * (b.d \div g2),
                (a.d \div g2) * (b.n \div g1), a.e - b.e)

\* a + b, rounded to nearest: a value with a larger e does not move a
\* non-zero value with a smaller e.
FAdd(a, b) ==
    IF is_nan(a) \/ is_nan(b) THEN NAN
    ELSE IF is_infinite(a)
         THEN IF is_infinite(b) /\ a.sg # b.sg THEN NAN ELSE a
    ELSE IF is_infinite(b) THEN b
    ELSE IF IsZero(a) /\ IsZero(b)
         THEN IF a.sg = -1 /\ b.sg = -1 THEN NEG_ZERO ELSE Fin(1, 0, 1, 0)
    ELSE IF IsZero(a) THEN b
    ELSE IF IsZero(b) THEN a
    ELSE IF a.e < b.e THEN a
    ELSE IF b.e < a.e THEN b
    ELSE LET g == GCD(a.d, b.d)
             num == a.sg * a.n * (b.d \div g) + b.sg * b.n * (a.d \div g)
             den == (a.d \div g) * b.d
         IN IF num < 0 THEN Fin(-1, -num, den, a.e) ELSE Fin(1, num, den, a.e)

\* a - b
FSub(a, b) == FAdd(a, FNeg(b))

\* a % b (fmod): exact, with the sign of a.
FRem(a, b) ==
    IF is_nan(a) \/ is_nan(b) \/ is_infinite(a) \/ IsZero(b) THEN NAN
    ELSE IF is_infinite(b) \/ IsZero(a) THEN a
    ELSE IF a.e > b.e THEN a
    ELSE LET g == GCD(a.d, b.d)
             p == a.n * (b.d \div g)
             q == b.n * (a.d \div g)
         IN Fin(a.sg, p % q, (a.d \div g) * b.d, a.e)

\* f64::rem_euclid, as the standard library defines it:
\*     let r = self % rhs;  if r < 0.0 { r + rhs.abs() } else { r }
rem_euclid(a, rhs) ==
    LET r == FRem(a, rhs)
    IN IF FLt(r, AsF64(0)) THEN FAdd(r, FAbs(rhs)) ELSE r

\* f64::round: to the nearest integer, halves away from zero.
FRound(a) ==
    IF ~is_finite(a) THEN a
    ELSE IF a.e > 0 THEN Fin(a.sg, 0, 1, 0)
    ELSE Fin(a.sg, (2 * a.n + a.d) \div (2 * a.d), 1, 0)

\* `x as uN` for a float x: truncated toward zero and saturated to
\* 0..max, NaN gives 0.
FloatToUint(a, max) ==
    IF is_nan(a) THEN 0
    ELSE IF is_infinite(a) THEN (IF a.sg = 1 THEN max ELSE 0)
    ELSE IF a.sg = -1 \/ a.e > 0 THEN 0
    ELSE LET t == a.n \div a.d IN IF t > max THEN max ELSE t

\* -------------------------------------------------------------------------
\* RGB24
\* -------------------------------------------------------------------------

CHANNEL_MAX == 255

U8_MAX == 255
U16_MAX == 65535
\* u32::MAX exceeds the checker's integers; no value cast to u32 here
\* comes near it, so the saturation bound is any number above them.
U32_MAX == 2147483647

\* A value cast with `as u8` keeps its low eight bits.
AsU8(n) == n % 256

from_rgb(r, g, b) == [r |-> r, g |-> g, b |-> b]

BLACK == from_rgb(0, 0, 0)
WHITE == from_rgb(255, 255, 255)

Returned(c) == [ok |-> TRUE, val |-> <<c>>, msg |-> "none"]
Panicked(m) == [ok |-> FALSE, val |-> <<>>, msg |-> m]
NoCall == [ok |-> FALSE, val |-> <<>>, msg |-> "no call"]

\* log2 of the three bases from_int accepts, truncated to u32.
Log2(base) == CASE base = 4 -> 2 [] base = 16 -> 4 [] base = 256 -> 8

RECURSIVE Shr(_, _)
\* value >> bits
Shr(value, bits) == IF bits = 0 THEN value ELSE Shr(value \div 2, bits - 1)

\* from_int with the channels taken in the order red, green, blue from the
\* lowest digit (a variant that C1 must tell from from_int).
from_int_reversed(value, base) ==
    LET factor == CHANNEL_MAX \div (base - 1)
        bit_move == Log2(base)
        r == AsU8((value % base) * factor)
        v1 == Shr(value, bit_move)
        g == AsU8((v1 % base) * factor)
        v2 == Shr(v1, bit_move)
        b == AsU8((v2 % base) * factor)
    IN from_rgb(r, g, b)

\* RGB24::from_int: the three lowest base-`base` digits of value, each
\* multiplied by CHANNEL_MAX / (base - 1), blue lowest.
from_int(value, base) ==
    LET factor == CHANNEL_MAX \div (base - 1)
        bit_move == Log2(base)
        b == AsU8((value % base) * factor)
        v1 == Shr(value, bit_move)
        g == AsU8((v1 % base) * factor)
        v2 == Shr(v1, bit_move)
        r == AsU8((v2 % base) * factor)
    IN from_rgb(r, g, b)

\* from_hex expanding a three-digit string by a shift, "abc" to a0b0c0 (a
\* variant that C4 must tell from from_hex).
from_hex_shifted(s) ==
    LET length == Len(s)
        value == from_str_radix(s)
        c == from_int(U32ToInt(value.value), 16)
    IN IF ~value.ok THEN Panicked("HEX is invalid")
       ELSE IF length = 6 THEN Returned(from_int(U32ToInt(value.value), 256))
       ELSE IF length = 3
            THEN Returned(from_rgb((c.r \div 17) * 16, (c.g \div 17) * 16,
                                   (c.b \div 17) * 16))
       ELSE Panicked("HEX number has invalid length")

\* RGB24::from_hex: the string is parsed as a number first; the length is
\* looked at only after the parse succeeded.
from_hex(s) ==
    LET length == Len(s)
        value == from_str_radix(s)
    IN IF ~value.ok THEN Panicked("HEX is invalid")
       ELSE IF length = 6 THEN Returned(from_int(U32ToInt(value.value), 256))
       ELSE IF length = 3 THEN Returned(from_int(U32ToInt(value.value), 16))
       ELSE Panicked("HEX number has invalid length")

RECURSIVE LowerHex(_)
\* {:x}: the base-16 digits of n, lowercase, no leading zeros.
LowerHex(n) ==
    IF n < 16 THEN <<LowerDigits[n + 1]>>
    ELSE Append(LowerHex(n \div 16), LowerDigits[(n % 16) + 1])

\* {:0width$x}: LowerHex padded with zeros on the left to at least width.
FormatHex(n, width) ==
    LET digits == LowerHex(n)
    IN Repeat("0", width - Len(digits)) \o digits

\* to_hex with green shifted by four bits instead of eight (a variant that
\* C5 must tell from to_hex).
to_hex_nibble_shift(c) ==
    LET sum == (c.r * 65536) + (c.g * 16) + c.b
    IN FormatHex(sum, 6)

\* RGB24::to_hex
to_hex(c) ==
    LET sum == (c.r * 65536) + (c.g * 256) + c.b
    IN FormatHex(sum, 6)

\* The level truncated instead of rounded, as in the earlier to_hex_3 (a
\* variant that C6 must tell from ShortLevel).
ShortLevelTruncated(c) ==
    FloatToUint(FMul(FDiv(AsF64(c), AsF64(CHANNEL_MAX)), AsF64(15)), U32_MAX)

\* The 0..15 level of one channel in to_hex_short:
\*     (c as f64 / CHANNEL_MAX as f64 * 15 as f64).round() as u32
\* c * 15 / 255 = c / 17 is never within 1/34 of a half, so the rounding of
\* the quotient in f64 cannot change the level.
ShortLevel(c) ==
    FloatToUint(FRound(FMul(FDiv(AsF64(c), AsF64(CHANNEL_MAX)), AsF64(15))),
                U32_MAX)

\* to_hex_short writing the channels in the order blue, green, red (a
\* variant that C27 must tell from to_hex_short).
to_hex_short_reversed(c) ==
    LET r == ShortLevel(c.r)
        g == ShortLevel(c.g)
        b == ShortLevel(c.b)
        sum == (b * 256) + (g * 16) + r
    IN FormatHex(sum, 3)

\* RGB24::to_hex_short
to_hex_short(c) ==
    LET r == ShortLevel(c.r)
        g == ShortLevel(c.g)
        b == ShortLevel(c.b)
        sum == (r * 256) + (g * 16) + b
    IN FormatHex(sum, 3)

\* -------------------------------------------------------------------------
\* Color (the first RGB type, color.rs)
\* -------------------------------------------------------------------------

\* Color::from_any_hex: the arithmetic of RGB24::from_int on the parsed value.
Color_from_any_hex(s, base) ==
    LET value == from_str_radix(s)
    IN IF ~value.ok THEN Panicked("HEX is invalid")
       ELSE Returned(from_int(U32ToInt(value.value), base))

\* Color::from_hex: the length is looked at before the string is parsed.
Color_from_hex(s) ==
    LET length == Len(s)
    IN IF length = 6 THEN Color_from_any_hex(s, 16 * 16)
       ELSE IF length = 3 THEN Color_from_any_hex(s, 16)
       ELSE Panicked("HEX number has invalid length")

\* Color::to_hex_3: (r << 4) + (g << 2) + b formatted with {:03x}.
Color_to_hex_3(c) ==
    LET sum == (c.r * 16) + (c.g * 4) + c.b
    IN FormatHex(sum, 3)

\* -------------------------------------------------------------------------
\* number_utils
\* -------------------------------------------------------------------------

\* to_u8_repr without the rounding, as in the earlier
\* save_convert_float_to_byte (a variant that C7 must tell from to_u8_repr).
to_u8_repr_truncating(float) ==
    IF FGe(float, AsF64(1)) THEN U8_MAX
    ELSE IF FLe(float, AsF64(0)) THEN 0
    ELSE FloatToUint(FMul(float, AsF64(U8_MAX)), U8_MAX)

\* number_utils::to_u8_repr
to_u8_repr(float) ==
    IF FGe(float, AsF64(1)) THEN U8_MAX
    ELSE IF FLe(float, AsF64(0)) THEN 0
    ELSE FloatToUint(FRound(FMul(float, AsF64(U8_MAX))), U8_MAX)

\* number_utils::to_u16_repr
to_u16_repr(float) ==
    IF FGe(float, AsF64(1)) THEN U16_MAX
    ELSE IF FLe(float, AsF64(0)) THEN 0
    ELSE FloatToUint(FRound(FMul(float, AsF64(U16_MAX))), U16_MAX)

\* approx_equal_f64 without the sign test for two infinities (a variant that
\* C8 must tell from approx_equal_f64).
approx_equal_f64_unsigned(a, b, epsilon) ==
    IF (is_finite(a) /\ ~is_finite(b)) \/ (~is_finite(a) /\ is_finite(b))
    THEN FALSE
    ELSE IF ~is_finite(a) /\ ~is_finite(b)
    THEN \/ is_nan(a) /\ is_nan(b)
         \/ is_infinite(a) /\ is_infinite(b)
    ELSE FLt(FAbs(FSub(a, b)), epsilon)

\* number_utils::approx_equal_f64
approx_equal_f64(a, b, epsilon) ==
    IF (is_finite(a) /\ ~is_finite(b)) \/ (~is_finite(a) /\ is_finite(b))
    THEN FALSE
    ELSE IF ~is_finite(a) /\ ~is_finite(b)
    THEN \/ is_nan(a) /\ is_nan(b)
         \/ /\ is_infinite(a)
            /\ is_infinite(b)
            /\ \/ is_sign_positive(a) /\ is_sign_positive(b)
               \/ is_sign_negative(a) /\ is_sign_negative(b)
    ELSE FLt(FAbs(FSub(a, b)), epsilon)

\* number_utils::convert_to_range
convert_to_range(a, min, max) ==
    IF FLe(a, min) THEN min
    ELSE IF FGe(a, max) THEN max
    ELSE a

\* -------------------------------------------------------------------------
\* HSV
\* -------------------------------------------------------------------------

H_MIN == AsF64(0)
S_MIN == AsF64(0)
V_MIN == AsF64(0)
H_MAX == AsF64(360)
S_MAX == AsF64(1)
V_MAX == AsF64(1)

NanMessage == "At least one of the given values is NAN"
HueMessage == "h must be finite!"

\* from_hsv without the second assertion (a variant that C9 must tell from
\* from_hsv).
from_hsv_one_assertion(h, s, v) ==
    IF ~(~is_nan(h) /\ ~is_nan(s) /\ ~is_nan(v)) THEN Panicked(NanMessage)
    ELSE Returned([h |-> rem_euclid(h, H_MAX),
                   s |-> convert_to_range(s, S_MIN, S_MAX),
                   v |-> convert_to_range(v, V_MIN, V_MAX)])

\* from_hsv with the two assertions in the other order (a variant that C30
\* must tell from from_hsv).
from_hsv_finite_first(h, s, v) ==
    IF ~is_finite(h) THEN Panicked(HueMessage)
    ELSE IF ~(~is_nan(h) /\ ~is_nan(s) /\ ~is_nan(v)) THEN Panicked(NanMessage)
    ELSE Returned([h |-> rem_euclid(h, H_MAX),
                   s |-> convert_to_range(s, S_MIN, S_MAX),
                   v |-> convert_to_range(v, V_MIN, V_MAX)])

\* HSV::from_hsv: two assertions, then the struct with the hue taken
\* rem_euclid 360 and saturation and value clamped.
from_hsv(h, s, v) ==
    IF ~(~is_nan(h) /\ ~is_nan(s) /\ ~is_nan(v)) THEN Panicked(NanMessage)
    ELSE IF ~is_finite(h) THEN Panicked(HueMessage)
    ELSE Returned([h |-> rem_euclid(h, H_MAX),
                   s |-> convert_to_range(s, S_MIN, S_MAX),
                   v |-> convert_to_range(v, V_MIN, V_MAX)])

\* HSV::from_hsv_u8: each byte divided by u8::MAX and scaled to the range
\* of its channel, then from_hsv.
from_hsv_u8(h, s, v) ==
    from_hsv(FMul(FDiv(AsF64(h), AsF64(U8_MAX)), H_MAX),
             FMul(FDiv(AsF64(s), AsF64(U8_MAX)), S_MAX),
             FMul(FDiv(AsF64(v), AsF64(U8_MAX)), V_MAX))

\* HSV::as_tuple_u8: each `as u8` cast truncates and saturates.
as_tuple_u8(c) ==
    <<FloatToUint(FMul(FDiv(c.h, H_MAX), AsF64(U8_MAX)), U8_MAX),
      FloatToUint(FMul(FDiv(c.s, S_MAX), AsF64(U8_MAX)), U8_MAX),
      FloatToUint(FMul(FDiv(c.v, V_MAX), AsF64(U8_MAX)), U8_MAX)>>

\* A tolerance of 1e-4 (a variant that C29 must tell from EPSILON).
EPSILON_coarse == Rat(1, 10000)

\* const EPSILON: f64 = 0.000_000_1
EPSILON == Rat(1, 10000000)

\* impl PartialEq for HSV
HSV_eq(a, b) ==
    /\ approx_equal_f64(a.h, b.h, EPSILON)
    /\ approx_equal_f64(a.s, b.s, EPSILON)
    /\ approx_equal_f64(a.v, b.v, EPSILON)

\* impl From<(f64, f64, f64)> for HSV
HSV_from(t) == from_hsv(t[1], t[2], t[3])

HSV_WHITE == [h |-> AsF64(0), s |-> AsF64(0), v |-> AsF64(1)]
HSV_BLACK == [h |-> AsF64(0), s |-> AsF64(0), v |-> AsF64(0)]
HSV_RED == [h |-> AsF64(0), s |-> AsF64(1), v |-> AsF64(1)]
HSV_GREEN == [h |-> AsF64(120), s |-> AsF64(1), v |-> AsF64(1)]
HSV_BLUE == [h |-> AsF64(240), s |-> AsF64(1), v |-> AsF64(1)]

\* impl Default for HSV
\* impl Color for HSV
HSV_is_white(c) == HSV_eq(c, HSV_WHITE)
HSV_is_black(c) == HSV_eq(c, HSV_BLACK)

HSV_default == HSV_BLACK

\* The setters store their argument as it is.
set_h(c, h) == [c EXCEPT !.h = h]
set_s(c, s) == [c EXCEPT !.s = s]
set_v(c, v) == [c EXCEPT !.v = v]

\* -------------------------------------------------------------------------
\* RGB24 / RGB48: float constructors, setters, fractions
\* -------------------------------------------------------------------------

RGB48_MAX == U16_MAX

\* RGB24::from_rgb_f64
from_rgb_f64(r, g, b) == from_rgb(to_u8_repr(r), to_u8_repr(g), to_u8_repr(b))

\* RGB48::from_rgb
rgb48_from_rgb(r, g, b) == [r |-> r, g |-> g, b |-> b]

\* RGB48::from_rgb_f64
rgb48_from_rgb_f64(r, g, b) ==
    rgb48_from_rgb(to_u16_repr(r), to_u16_repr(g), to_u16_repr(b))

\* RGB24::set_red / set_green / set_blue
set_red(c, r) == [c EXCEPT !.r = r]
set_green(c, g) == [c EXCEPT !.g = g]
set_blue(c, b) == [c EXCEPT !.b = b]

\* RGB48::set_r / set_g / set_b
set_r(c, r) == [c EXCEPT !.r = r]
\* set_g writing the red channel as well (a variant that C18 must tell from
\* set_g).
set_g_both(c, g) == [c EXCEPT !.g = g, !.r = g]
set_g(c, g) == [c EXCEPT !.g = g]
set_b(c, b) == [c EXCEPT !.b = b]

\* impl Color for RGB24
is_white(c) == c = WHITE
is_black(c) == c = BLACK

\* RGB48::WHITE, RGB48::BLACK
RGB48_WHITE == [r |-> U16_MAX, g |-> U16_MAX, b |-> U16_MAX]
RGB48_BLACK == [r |-> 0, g |-> 0, b |-> 0]

\* impl Color for RGB48
rgb48_is_white(c) == c = RGB48_WHITE
rgb48_is_black(c) == c = RGB48_BLACK

\* RGB24::as_tuple_f64: each channel as a fraction of 255.
as_tuple_f64(c) ==
    <<FDiv(AsF64(c.r), AsF64(CHANNEL_MAX)),
      FDiv(AsF64(c.g), AsF64(CHANNEL_MAX)),
      FDiv(AsF64(c.b), AsF64(CHANNEL_MAX))>>

\* as_tuple_f64 of RGB48 dividing by 2^16 (a variant that C28 must tell
\* from rgb48_as_tuple_f64).
rgb48_as_tuple_f64_by_shift(c) ==
    <<FDiv(AsF64(c.r), AsF64(U16_MAX + 1)),
      FDiv(AsF64(c.g), AsF64(U16_MAX + 1)),
      FDiv(AsF64(c.b), AsF64(U16_MAX + 1))>>

\* RGB48::as_tuple_f64: each channel as a fraction of 65535.
rgb48_as_tuple_f64(c) ==
    <<FDiv(AsF64(c.r), AsF64(RGB48_MAX)),
      FDiv(AsF64(c.g), AsF64(RGB48_MAX)),
      FDiv(AsF64(c.b), AsF64(RGB48_MAX))>>

\* -------------------------------------------------------------------------
\* converter.rs
\* -------------------------------------------------------------------------

\* f64::max / f64::min: a NaN operand is ignored.
FMax(a, b) ==
    IF is_nan(a) THEN b ELSE IF is_nan(b) THEN a
    ELSE IF FLt(a, b) THEN b ELSE a
FMin(a, b) ==
    IF is_nan(a) THEN b ELSE IF is_nan(b) THEN a
    ELSE IF FLt(b, a) THEN b ELSE a

get_max(a, b, c) == FMax(a, FMax(b, c))
get_min(a, b, c) == FMin(a, FMin(b, c))

\* rgb_hue with the offsets of the green and the blue branch exchanged (a
\* variant that C12 must tell from rgb_hue).
rgb_hue_offsets_swapped(r, g, b) ==
    LET c_max == get_max(r, g, b)
        c_min == get_min(r, g, b)
        delta == FSub(c_max, c_min)
    IN IF FEq(delta, AsF64(0)) THEN AsF64(0)
       ELSE IF FGe(r, b) /\ FGe(r, g)
            THEN FMul(AsF64(60), FRem(FDiv(FSub(g, b), delta), AsF64(6)))
       ELSE IF FGe(g, r) /\ FGe(g, b)
            THEN FMul(AsF64(60), FAdd(FDiv(FSub(b, r), delta), AsF64(4)))
       ELSE FMul(AsF64(60), FAdd(FDiv(FSub(r, g), delta), AsF64(2)))

\* The hue rgb_to_hsv computes before it calls HSV::from_hsv.
rgb_hue(r, g, b) ==
    LET c_max == get_max(r, g, b)
        c_min == get_min(r, g, b)
        delta == FSub(c_max, c_min)
    IN IF FEq(delta, AsF64(0)) THEN AsF64(0)
       ELSE IF FGe(r, b) /\ FGe(r, g)
            THEN FMul(AsF64(60), FRem(FDiv(FSub(g, b), delta), AsF64(6)))
       ELSE IF FGe(g, r) /\ FGe(g, b)
            THEN FMul(AsF64(60), FAdd(FDiv(FSub(b, r), delta), AsF64(2)))
       ELSE FMul(AsF64(60), FAdd(FDiv(FSub(r, g), delta), AsF64(4)))

\* rgb_to_hsv building the HSV value from its fields, without the
\* constructor (a variant that C20 must tell from rgb_to_hsv).
rgb_to_hsv_unchecked(t) ==
    LET r == t[1]
        g == t[2]
        b == t[3]
        c_max == get_max(r, g, b)
        c_min == get_min(r, g, b)
        delta == FSub(c_max, c_min)
        hue == rgb_hue(r, g, b)
        saturation == IF FGt(c_max, AsF64(0)) THEN FDiv(delta, c_max)
                      ELSE AsF64(0)
        value == c_max
    IN Returned([h |-> hue, s |-> saturation, v |-> value])

\* converter::rgb_to_hsv, given the fractions as_tuple_f64 returned.
rgb_to_hsv(t) ==
    LET r == t[1]
        g == t[2]
        b == t[3]
        c_max == get_max(r, g, b)
        c_min == get_min(r, g, b)
        delta == FSub(c_max, c_min)
        hue == rgb_hue(r, g, b)
        saturation == IF FGt(c_max, AsF64(0)) THEN FDiv(delta, c_max)
                      ELSE AsF64(0)
        value == c_max
    IN from_hsv(hue, saturation, value)

\* calc_hsv with the second sector answering as the first (a variant that
\* C13 must tell from calc_hsv).
calc_hsv_second_as_first(h, chroma, x) ==
    LET zero == AsF64(0)
    IN IF is_nan(h) THEN <<zero, zero, zero>>
       ELSE IF FLe(AsF64(0), h) /\ FLe(h, AsF64(2)) THEN <<chroma, x, zero>>
       ELSE IF FLt(AsF64(2), h) /\ FLe(h, AsF64(3)) THEN <<zero, chroma, x>>
       ELSE IF FLt(AsF64(3), h) /\ FLe(h, AsF64(4)) THEN <<zero, x, chroma>>
       ELSE IF FLt(AsF64(4), h) /\ FLe(h, AsF64(5)) THEN <<x, zero, chroma>>
       ELSE IF FLt(AsF64(5), h) /\ FLe(h, AsF64(6)) THEN <<chroma, zero, x>>
       ELSE <<zero, zero, zero>>

\* calc_hsv with the triple of the fifth sector in another order (a variant
\* that C21 must tell from calc_hsv).
calc_hsv_fifth_swapped(h, chroma, x) ==
    LET zero == AsF64(0)
    IN IF is_nan(h) THEN <<zero, zero, zero>>
       ELSE IF FLe(AsF64(0), h) /\ FLe(h, AsF64(1)) THEN <<chroma, x, zero>>
       ELSE IF FLt(AsF64(1), h) /\ FLe(h, AsF64(2)) THEN <<x, chroma, zero>>
       ELSE IF FLt(AsF64(2), h) /\ FLe(h, AsF64(3)) THEN <<zero, chroma, x>>
       ELSE IF FLt(AsF64(3), h) /\ FLe(h, AsF64(4)) THEN <<zero, x, chroma>>
       ELSE IF FLt(AsF64(4), h) /\ FLe(h, AsF64(5)) THEN <<zero, x, chroma>>
       ELSE IF FLt(AsF64(5), h) /\ FLe(h, AsF64(6)) THEN <<chroma, zero, x>>
       ELSE <<zero, zero, zero>>

\* calc_hsv with the last sector ending before 6 (a variant that C22 must
\* tell from calc_hsv).
calc_hsv_open_end(h, chroma, x) ==
    LET zero == AsF64(0)
    IN IF is_nan(h) THEN <<zero, zero, zero>>
       ELSE IF FLe(AsF64(0), h) /\ FLe(h, AsF64(1)) THEN <<chroma, x, zero>>
       ELSE IF FLt(AsF64(1), h) /\ FLe(h, AsF64(2)) THEN <<x, chroma, zero>>
       ELSE IF FLt(AsF64(2), h) /\ FLe(h, AsF64(3)) THEN <<zero, chroma, x>>
       ELSE IF FLt(AsF64(3), h) /\ FLe(h, AsF64(4)) THEN <<zero, x, chroma>>
       ELSE IF FLt(AsF64(4), h) /\ FLe(h, AsF64(5)) THEN <<x, zero, chroma>>
       ELSE IF FLt(AsF64(5), h) /\ FLt(h, AsF64(6)) THEN <<chroma, zero, x>>
       ELSE <<zero, zero, zero>>

\* calc_hsv answering a NaN hue as the first sector (a variant that C23
\* must tell from calc_hsv).
calc_hsv_nan_as_first(h, chroma, x) ==
    LET zero == AsF64(0)
    IN IF is_nan(h) THEN <<chroma, x, zero>>
       ELSE IF FLe(AsF64(0), h) /\ FLe(h, AsF64(1)) THEN <<chroma, x, zero>>
       ELSE IF FLt(AsF64(1), h) /\ FLe(h, AsF64(2)) THEN <<x, chroma, zero>>
       ELSE IF FLt(AsF64(2), h) /\ FLe(h, AsF64(3)) THEN <<zero, chroma, x>>
       ELSE IF FLt(AsF64(3), h) /\ FLe(h, AsF64(4)) THEN <<zero, x, chroma>>
       ELSE IF FLt(AsF64(4), h) /\ FLe(h, AsF64(5)) THEN <<x, zero, chroma>>
       ELSE IF FLt(AsF64(5), h) /\ FLe(h, AsF64(6)) THEN <<chroma, zero, x>>
       ELSE <<zero, zero, zero>>

\* converter::calc_hsv
calc_hsv(h, chroma, x) ==
    LET zero == AsF64(0)
    IN IF is_nan(h) THEN <<zero, zero, zero>>
       ELSE IF FLe(AsF64(0), h) /\ FLe(h, AsF64(1)) THEN <<chroma, x, zero>>
       ELSE IF FLt(AsF64(1), h) /\ FLe(h, AsF64(2)) THEN <<x, chroma, zero>>
       ELSE IF FLt(AsF64(2), h) /\ FLe(h, AsF64(3)) THEN <<zero, chroma, x>>
       ELSE IF FLt(AsF64(3), h) /\ FLe(h, AsF64(4)) THEN <<zero, x, chroma>>
       ELSE IF FLt(AsF64(4), h) /\ FLe(h, AsF64(5)) THEN <<x, zero, chroma>>
       ELSE IF FLt(AsF64(5), h) /\ FLe(h, AsF64(6)) THEN <<chroma, zero, x>>
       ELSE <<zero, zero, zero>>

\* hsv_to_rgb without the offset m added to the channels (a variant that
\* C14 must tell from hsv_to_rgb).
hsv_to_rgb_no_offset(c, T) ==
    LET chroma == FMul(c.v, c.s)
        h == FDiv(c.h, AsF64(60))
        x == FMul(chroma,
                  FSub(AsF64(1), FAbs(FSub(FRem(h, AsF64(2)), AsF64(1)))))
        rgb0 == calc_hsv(h, chroma, x)
    IN IF T = "RGB24"
       THEN from_rgb_f64(rgb0[1], rgb0[2], rgb0[3])
       ELSE rgb48_from_rgb_f64(rgb0[1], rgb0[2], rgb0[3])

\* converter::hsv_to_rgb::<T, U>, T being "RGB24" or "RGB48".
hsv_to_rgb(c, T) ==
    LET chroma == FMul(c.v, c.s)
        h == FDiv(c.h, AsF64(60))
        x == FMul(chroma,
                  FSub(AsF64(1), FAbs(FSub(FRem(h, AsF64(2)), AsF64(1)))))
        rgb0 == calc_hsv(h, chroma, x)
        m == FSub(c.v, chroma)
    IN IF T = "RGB24"
       THEN from_rgb_f64(FAdd(rgb0[1], m), FAdd(rgb0[2], m), FAdd(rgb0[3], m))
       ELSE rgb48_from_rgb_f64(FAdd(rgb0[1], m), FAdd(rgb0[2], m),
                               FAdd(rgb0[3], m))

\* a * b in u16 (the product wraps at 2^16 when it overflows).
MulU16(a, b) == (a * b) % (U16_MAX + 1)

\* The factor of a shift by eight bits (a variant that C16 must tell from
\* FACTOR).
FACTOR_shift == U8_MAX + 1

\* const FACTOR: u16 = RGB48::MAX / RGB24::MAX as u16
FACTOR == RGB48_MAX \div CHANNEL_MAX

\* const DIVIDER: u16 = RGB48::MAX / RGB24::MAX as u16
DIVIDER == RGB48_MAX \div CHANNEL_MAX

\* rgb24_to_rgb48 moving each channel to the high byte (a variant that C15
\* must tell from rgb24_to_rgb48).
rgb24_to_rgb48_high_byte(c) ==
    rgb48_from_rgb(MulU16(c.r, U8_MAX + 1), MulU16(c.g, U8_MAX + 1),
                   MulU16(c.b, U8_MAX + 1))

\* converter::rgb24_to_rgb48
rgb24_to_rgb48(c) ==
    rgb48_from_rgb(MulU16(c.r, FACTOR), MulU16(c.g, FACTOR),
                   MulU16(c.b, FACTOR))

\* rgb48_to_rgb24 rounding to the nearest 8-bit value (a variant that C17
\* must tell from rgb48_to_rgb24).
rgb48_to_rgb24_rounding(c) ==
    from_rgb(AsU8((c.r + DIVIDER \div 2) \div DIVIDER),
             AsU8((c.g + DIVIDER \div 2) \div DIVIDER),
             AsU8((c.b + DIVIDER \div 2) \div DIVIDER))

\* converter::rgb48_to_rgb24
rgb48_to_rgb24(c) ==
    from_rgb(AsU8(c.r \div DIVIDER), AsU8(c.g \div DIVIDER),
             AsU8(c.b \div DIVIDER))

\* -------------------------------------------------------------------------
\* Inputs
\* -------------------------------------------------------------------------

ChannelSamples == {0, 165, 255}

\* Colours with one channel taking every value and the two others a sample.
AxisColours ==
    {from_rgb(c, x, y) : c \in 0..CHANNEL_MAX, x \in ChannelSamples, y \in ChannelSamples}
    \cup {from_rgb(x, c, y) : c \in 0..CHANNEL_MAX, x \in ChannelSamples, y \in ChannelSamples}
    \cup {from_rgb(x, y, c) : c \in 0..CHANNEL_MAX, x \in ChannelSamples, y \in ChannelSamples}

\* The colours of the tests of rgb24.rs.
TestColours ==
    {from_rgb(240, 240, 240), from_rgb(16, 32, 48), from_rgb(160, 196, 237),
     from_rgb(166, 65, 21), from_rgb(21, 166, 65), from_rgb(65, 21, 166),
     from_rgb(255, 51, 153), from_rgb(1, 27, 49), from_rgb(80, 252, 1),
     from_rgb(0, 255, 127), from_rgb(255, 0, 128), from_rgb(3, 42, 127)}

Colours == AxisColours \cup TestColours

\* Strings of length 5..MaxHexLen: a first, a repeated middle and a last
\* character.
LongStrings ==
    {<<p>> \o Repeat(q, len - 2) \o <<t>> :
        p \in SmallAlphabet, q \in SmallAlphabet, t \in SmallAlphabet,
        len \in (ShortLen + 1)..MaxHexLen}

HexInputs ==
    Strings(HexChars, 3)
    \cup UNION {Strings(SmallAlphabet, len) : len \in 0..ShortLen}
    \cup LongStrings

\* Arguments of Color::from_hex: the strings of the tests of to_hex_3 and
\* short strings of every kind.
ColorStrings ==
    {<<"f", "0", "f", "0", "f", "0">>, <<"1", "0", "2", "0", "3", "0">>,
     <<"a", "0", "c", "4", "e", "d">>}
    \cup UNION {Strings(SmallAlphabet, len) : len \in 0..ShortLen}

RECURSIVE Pow2(_)
Pow2(i) == IF i = 0 THEN 1 ELSE 2 * Pow2(i - 1)

\* Fractions k / 2^GridBits are arguments of to_u8_repr and to_u16_repr.
GridBits == 8

SpecialFloats == {NAN, INFINITY, NEG_INFINITY, NEG_ZERO, TINY, NEG_TINY}

\* Arguments of to_u8_repr / to_u16_repr: the specials, a dyadic grid from
\* just below 0 to just above 1, and the values of the tests.
UnitInputs ==
    SpecialFloats
    \cup {Rat(k, Pow2(GridBits)) : k \in (-8)..(Pow2(GridBits) + 8)}
    \cup {Rat(1, 5), Rat(4, 5), Rat(11, 10), Rat(-1, 10), Rat(-25, 2),
          AsF64(2), AsF64(-3), AsF64(1204), AsF64(-1124)}

\* Arguments a, b of approx_equal_f64.
EqInputs == SpecialFloats \cup {Rat(k, 4) : k \in (-5)..5}

\* Arguments epsilon of approx_equal_f64.
EpsInputs ==
    {NAN, INFINITY, NEG_INFINITY, TINY, AsF64(0), AsF64(-1),
     Rat(1, 4), Rat(1, 2), AsF64(1), AsF64(2)}

\* Hues in half degrees: around 0, 360, 720 and their negatives, and the
\* canonical hues.
HalfDegrees ==
    {k \in (-1444)..1444 :
        \/ k % 720 <= 3
        \/ k % 720 >= 717
        \/ k \in {20, 120, 240, 360, 480, 600, 660}}

HueInputs == SpecialFloats \cup {Rat(k, 2) : k \in HalfDegrees}

\* Saturations and values.
UnitRangeInputs ==
    SpecialFloats \cup {Rat(k, 4) : k \in (-4)..8}

\* Arguments (h, s, v) of the HSV constructors whose result the setters
\* then change.
HsvHues ==
    {NAN, INFINITY, NEG_ZERO, TINY, NEG_TINY, AsF64(-1), AsF64(0), AsF64(10),
     AsF64(120), AsF64(180), Rat(719, 2), AsF64(360), AsF64(361), AsF64(720)}
HsvUnits ==
    {NAN, INFINITY, NEG_INFINITY, AsF64(-1), AsF64(0), Rat(1, 5), Rat(1, 2),
     AsF64(1), AsF64(2)}

\* Arguments of HSV::from_hsv_u8.
ByteSamples == {0, 51, 254, 255}

\* Arguments of set_h / set_s / set_v.
SetterInputs ==
    {NAN, INFINITY, AsF64(-1), AsF64(0), Rat(1, 2), AsF64(1), AsF64(120),
     AsF64(360), AsF64(400)}

\* HSV values converted to RGB: the six canonical hues and hues inside
\* every sector, at several saturations and values.
ConvHues == {AsF64(30 * k) : k \in 0..11} \cup {AsF64(45), Rat(719, 2)}
ConvUnits == {AsF64(0), Rat(1, 4), Rat(1, 2), AsF64(1)}

\* 16-bit channel values: the multiples of 257 and their neighbours.
WideChannels ==
    {c \in 0..RGB48_MAX : c % FACTOR \in {0, 1, FACTOR - 1}}
WideSamples == {0, 258, RGB48_MAX}

\* RGB48 colours with one channel taking every value of WideChannels and the
\* two others a sample.
WideColours ==
    {rgb48_from_rgb(c, x, y) : c \in WideChannels, x \in WideSamples, y \in WideSamples}
    \cup {rgb48_from_rgb(x, c, y) : c \in WideChannels, x \in WideSamples, y \in WideSamples}
    \cup {rgb48_from_rgb(x, y, c) : c \in WideChannels, x \in WideSamples, y \in WideSamples}

\* 16-bit colours converted to HSV: every combination of a few channel
\* values (extremes, neighbours of a multiple of 257, divisors of 65535).
ConvWideChannels ==
    {0, 1, 257, 258, 4369, 13107, 21845, 32767, 32768, 65278, 65534, RGB48_MAX}
ConvWideColours ==
    {rgb48_from_rgb(r, g, b) : r \in ConvWideChannels, g \in ConvWideChannels,
                               b \in ConvWideChannels}

\* Channel values given to the RGB setters.
SetSamples == {0, 3, 42, 127, 255}
WideSetSamples == {0, 3, 42, 32768, 65535}

\* Arguments of from_rgb_f64.
FractionInputs ==
    {NAN, INFINITY, AsF64(-1), AsF64(0), Rat(1, 5), Rat(1, 4), Rat(1, 2),
     Rat(3, 4), AsF64(1), AsF64(2)}

\* -------------------------------------------------------------------------
\* The client
\* -------------------------------------------------------------------------

Idle ==
    /\ out = NoCall
    /\ fargs = <<>>
    /\ fres = <<>>
    /\ hsv = NoCall
    /\ wide = <<>>
    /\ arg = <<>>

\* let color = RGB24::from_rgb(r, g, b);
InitColour ==
    /\ last = "from_rgb"
    /\ rgb \in {<<c>> : c \in Colours}
    /\ hex = <<>>
    /\ via = "none"
    /\ Idle

\* let hex: &str = ...;
InitString ==
    /\ last = "input"
    /\ rgb = <<>>
    /\ hex \in HexInputs
    /\ via = "input"
    /\ Idle

InitHex == InitColour \/ InitString

NoHex ==
    /\ rgb = <<>>
    /\ hex = <<>>
    /\ via = "none"
    /\ out = NoCall
    /\ wide = <<>>
    /\ arg = <<>>

\* One float, or the arguments (a, b, epsilon).
InitNum ==
    /\ last = "input"
    /\ NoHex
    /\ fargs \in {<<f>> : f \in UnitInputs}
                 \cup {<<a, b, e>> : a \in EqInputs, b \in EqInputs, e \in EpsInputs}
    /\ fres = <<>>
    /\ hsv = NoCall

\* The arguments (h, s, v).
InitHsv ==
    /\ last = "input"
    /\ NoHex
    /\ fargs \in {<<h, s, v>> : h \in HueInputs, s \in UnitRangeInputs,
                                v \in UnitRangeInputs}
    /\ fres = <<>>
    /\ hsv = NoCall

\* hex = color.to_hex()
ToHex ==
    /\ rgb # <<>>
    /\ hex' = to_hex(rgb[1])
    /\ via' = "to_hex"
    /\ last' = "to_hex"
    /\ out' = NoCall
    /\ UNCHANGED <<rgb, fargs, fres, hsv, wide, arg>>

\* hex = color.to_hex_short()
ToHexShort ==
    /\ rgb # <<>>
    /\ hex' = to_hex_short(rgb[1])
    /\ via' = "to_hex_short"
    /\ last' = "to_hex_short"
    /\ out' = NoCall
    /\ UNCHANGED <<rgb, fargs, fres, hsv, wide, arg>>

\* RGB24::from_hex(hex)
FromHex ==
    /\ via # "none"
    /\ last # "from_hex"
    /\ out' = from_hex(hex)
    /\ last' = "from_hex"
    /\ UNCHANGED <<rgb, hex, via, fargs, fres, hsv, wide, arg>>

\* RGB24::from_hex(hex).to_hex_short()
ParsedToHexShort ==
    /\ out.ok
    /\ last = "from_hex"
    /\ via = "input"
    /\ fres' = <<to_hex_short(out.val[1])>>
    /\ last' = "from_hex.to_hex_short"
    /\ UNCHANGED <<rgb, hex, via, out, fargs, hsv, wide, arg>>

\* let color = <the colour from_hex returned>;
Bind ==
    /\ out.ok
    /\ rgb' = out.val
    /\ hex' = <<>>
    /\ via' = "none"
    /\ out' = NoCall
    /\ last' = "from_rgb"
    /\ UNCHANGED <<fargs, fres, hsv, wide, arg>>

\* ---- Color ----

\* let hex: &str = ...; for Color::from_hex
InitColorString ==
    /\ last = "input"
    /\ rgb = <<>>
    /\ hex \in ColorStrings
    /\ via = "input"
    /\ Idle

InitColor == InitColour \/ InitColorString

\* Color::from_hex(hex)
ColorFromHex ==
    /\ via = "input"
    /\ last = "input"
    /\ out' = Color_from_hex(hex)
    /\ last' = "from_hex"
    /\ UNCHANGED <<rgb, hex, via, fargs, fres, hsv, wide, arg>>

\* color.to_hex_3()
ColorToHex3 ==
    /\ rgb # <<>>
    /\ last = "from_rgb"
    /\ fres' = <<Color_to_hex_3(rgb[1])>>
    /\ last' = "to_hex_3"
    /\ UNCHANGED <<rgb, hex, via, out, fargs, hsv, wide, arg>>

\* to_u8_repr(f)
ToU8Repr ==
    /\ Len(fargs) = 1
    /\ last = "input"
    /\ fres' = <<to_u8_repr(fargs[1])>>
    /\ last' = "to_u8_repr"
    /\ UNCHANGED <<rgb, hex, via, out, fargs, hsv, wide, arg>>

\* to_u16_repr(f)
ToU16Repr ==
    /\ Len(fargs) = 1
    /\ last = "input"
    /\ fres' = <<to_u16_repr(fargs[1])>>
    /\ last' = "to_u16_repr"
    /\ UNCHANGED <<rgb, hex, via, out, fargs, hsv, wide, arg>>

\* approx_equal_f64(a, b, epsilon)
ApproxEqual ==
    /\ Len(fargs) = 3
    /\ last = "input"
    /\ fres' = <<approx_equal_f64(fargs[1], fargs[2], fargs[3])>>
    /\ last' = "approx_equal_f64"
    /\ UNCHANGED <<rgb, hex, via, out, fargs, hsv, wide, arg>>

\* HSV::from_hsv(h, s, v)
FromHsv ==
    /\ Len(fargs) = 3
    /\ last = "input"
    /\ hsv' = from_hsv(fargs[1], fargs[2], fargs[3])
    /\ last' = "from_hsv"
    /\ UNCHANGED <<rgb, hex, via, out, fargs, fres, wide, arg>>

\* ---- HSV constructors and setters ----

\* Nothing held yet.
InitEmpty ==
    /\ last = "input"
    /\ NoHex
    /\ fargs = <<>>
    /\ fres = <<>>
    /\ hsv = NoCall

\* The arguments (h, s, v) of from_hsv / From<(f64, f64, f64)>.
InitHsvArgs ==
    /\ last = "input"
    /\ NoHex
    /\ fargs \in {<<h, s, v>> : h \in HsvHues, s \in HsvUnits, v \in HsvUnits}
    /\ fres = <<>>
    /\ hsv = NoCall

\* The arguments (h, s, v) of from_hsv_u8.
InitHsvBytes ==
    /\ last = "input"
    /\ rgb = <<>>
    /\ hex = <<>>
    /\ via = "none"
    /\ out = NoCall
    /\ wide = <<>>
    /\ arg \in {<<h, s, v>> : h \in ByteSamples, s \in ByteSamples, v \in ByteSamples}
    /\ fargs = <<>>
    /\ fres = <<>>
    /\ hsv = NoCall

InitHsvOps == InitEmpty \/ InitHsvArgs \/ InitHsvBytes

\* HSV::default()
Default ==
    /\ last = "input"
    /\ fargs = <<>>
    /\ arg = <<>>
    /\ hsv' = Returned(HSV_default)
    /\ last' = "default"
    /\ UNCHANGED <<rgb, hex, via, out, fargs, fres, wide, arg>>

\* HSV::from((h, s, v))
FromTuple ==
    /\ Len(fargs) = 3
    /\ last = "input"
    /\ hsv' = HSV_from(fargs)
    /\ last' = "from"
    /\ UNCHANGED <<rgb, hex, via, out, fargs, fres, wide, arg>>

\* HSV::from_hsv_u8(h, s, v)
FromHsvU8 ==
    /\ Len(arg) = 3
    /\ last = "input"
    /\ hsv' = from_hsv_u8(arg[1], arg[2], arg[3])
    /\ last' = "from_hsv_u8"
    /\ UNCHANGED <<rgb, hex, via, out, fargs, fres, wide, arg>>

\* color.as_tuple_u8()
AsTupleU8 ==
    /\ hsv.ok
    /\ last # "as_tuple_u8"
    /\ fres' = <<as_tuple_u8(hsv.val[1])>>
    /\ last' = "as_tuple_u8"
    /\ UNCHANGED <<rgb, hex, via, out, fargs, hsv, wide, arg>>

\* color.set_h(x)
SetH ==
    /\ hsv.ok
    /\ \E x \in SetterInputs : hsv' = Returned(set_h(hsv.val[1], x))
    /\ last' = "set_h"
    /\ fargs' = <<>>
    /\ arg' = <<>>
    /\ fres' = <<>>
    /\ UNCHANGED <<rgb, hex, via, out, wide>>

\* color.set_s(x)
SetS ==
    /\ hsv.ok
    /\ \E x \in SetterInputs : hsv' = Returned(set_s(hsv.val[1], x))
    /\ last' = "set_s"
    /\ fargs' = <<>>
    /\ arg' = <<>>
    /\ fres' = <<>>
    /\ UNCHANGED <<rgb, hex, via, out, wide>>

\* color.set_v(x)
SetV ==
    /\ hsv.ok
    /\ \E x \in SetterInputs : hsv' = Returned(set_v(hsv.val[1], x))
    /\ last' = "set_v"
    /\ fargs' = <<>>
    /\ arg' = <<>>
    /\ fres' = <<>>
    /\ UNCHANGED <<rgb, hex, via, out, wide>>

\* ---- conversions RGB <-> HSV ----

\* let color = RGB48::from_rgb(r, g, b);
InitWide ==
    /\ last = "from_rgb48"
    /\ rgb = <<>>
    /\ hex = <<>>
    /\ via = "none"
    /\ out = NoCall
    /\ fargs = <<>>
    /\ fres = <<>>
    /\ hsv = NoCall
    /\ wide \in {<<c>> : c \in WideColours}
    /\ arg = <<>>

\* The arguments (h, s, v) of the HSV value to convert.
InitConvArgs ==
    /\ last = "input"
    /\ NoHex
    /\ fargs \in {<<h, s, v>> : h \in ConvHues, s \in ConvUnits, v \in ConvUnits}
    /\ fres = <<>>
    /\ hsv = NoCall

\* let color = RGB48::from_rgb(r, g, b);  (a colour to convert to HSV)
InitConvWide ==
    /\ last = "from_rgb48"
    /\ rgb = <<>>
    /\ hex = <<>>
    /\ via = "none"
    /\ out = NoCall
    /\ fargs = <<>>
    /\ fres = <<>>
    /\ hsv = NoCall
    /\ wide \in {<<c>> : c \in ConvWideColours}
    /\ arg = <<>>

InitConv == InitColour \/ InitConvWide \/ InitConvArgs

\* hsv = color.to_hsv() for the RGB24 held
Rgb24ToHsv ==
    /\ rgb # <<>>
    /\ last \in {"from_rgb", "keep24"}
    /\ hsv' = rgb_to_hsv(as_tuple_f64(rgb[1]))
    /\ last' = "to_hsv"
    /\ UNCHANGED <<rgb, hex, via, out, fargs, fres, wide, arg>>

\* hsv = color.to_hsv() for the RGB48 held
Rgb48ToHsv ==
    /\ wide # <<>>
    /\ last \in {"from_rgb48", "keep48"}
    /\ hsv' = rgb_to_hsv(rgb48_as_tuple_f64(wide[1]))
    /\ last' = "to_hsv"
    /\ UNCHANGED <<rgb, hex, via, out, fargs, fres, wide, arg>>

\* hsv.to_rgb24()
ToRgb24 ==
    /\ hsv.ok
    /\ last \in {"from_hsv", "to_hsv", "set_h"}
    /\ out' = Returned(hsv_to_rgb(hsv.val[1], "RGB24"))
    /\ last' = "to_rgb24"
    /\ UNCHANGED <<rgb, hex, via, fargs, fres, hsv, wide, arg>>

\* hsv.to_rgb48()
ToRgb48 ==
    /\ hsv.ok
    /\ last \in {"from_hsv", "to_hsv", "set_h"}
    /\ out' = Returned(hsv_to_rgb(hsv.val[1], "RGB48"))
    /\ last' = "to_rgb48"
    /\ UNCHANGED <<rgb, hex, via, fargs, fres, hsv, wide, arg>>

\* let color = <the RGB24 the last conversion returned>;
Keep24 ==
    /\ out.ok
    /\ last \in {"to_rgb24", "rgb48_to_rgb24"}
    /\ rgb = <<>>
    /\ rgb' = out.val
    /\ out' = NoCall
    /\ last' = "keep24"
    /\ UNCHANGED <<hex, via, fargs, fres, hsv, wide, arg>>

\* let color = <the RGB48 the last conversion returned>;
Keep48 ==
    /\ out.ok
    /\ last \in {"to_rgb48", "rgb24_to_rgb48"}
    /\ wide = <<>>
    /\ wide' = out.val
    /\ out' = NoCall
    /\ last' = "keep48"
    /\ UNCHANGED <<rgb, hex, via, fargs, fres, hsv, arg>>

\* ---- white and black ----

\* (color.is_white(), color.to_hsv().is_white())
IsWhite ==
    /\ hsv.ok
    /\ last = "to_hsv"
    /\ fres' = <<IF rgb # <<>> THEN is_white(rgb[1]) ELSE rgb48_is_white(wide[1]),
                 HSV_is_white(hsv.val[1])>>
    /\ last' = "is_white"
    /\ UNCHANGED <<rgb, hex, via, out, fargs, hsv, wide, arg>>

\* (color.is_black(), color.to_hsv().is_black())
IsBlack ==
    /\ hsv.ok
    /\ last = "to_hsv"
    /\ fres' = <<IF rgb # <<>> THEN is_black(rgb[1]) ELSE rgb48_is_black(wide[1]),
                 HSV_is_black(hsv.val[1])>>
    /\ last' = "is_black"
    /\ UNCHANGED <<rgb, hex, via, out, fargs, hsv, wide, arg>>

InitShade == InitColour \/ InitConvWide

\* ---- colour depth ----

InitDepth == InitColour \/ InitWide

\* converter::rgb24_to_rgb48(&color)
Upscale ==
    /\ rgb # <<>>
    /\ last \in {"from_rgb", "keep24"}
    /\ out' = Returned(rgb24_to_rgb48(rgb[1]))
    /\ last' = "rgb24_to_rgb48"
    /\ UNCHANGED <<rgb, hex, via, fargs, fres, hsv, wide, arg>>

\* converter::rgb48_to_rgb24(&color)
Downscale ==
    /\ wide # <<>>
    /\ last \in {"from_rgb48", "keep48"}
    /\ out' = Returned(rgb48_to_rgb24(wide[1]))
    /\ last' = "rgb48_to_rgb24"
    /\ UNCHANGED <<rgb, hex, via, fargs, fres, hsv, wide, arg>>

\* ---- RGB setters ----

SetColours == {from_rgb(r, g, b) : r \in SetSamples, g \in SetSamples, b \in SetSamples}
WideSetColours ==
    {rgb48_from_rgb(r, g, b) : r \in WideSetSamples, g \in WideSetSamples,
                               b \in WideSetSamples}

\* let mut color = RGB24::from_rgb(r, g, b);
InitSetNarrow ==
    /\ last = "from_rgb"
    /\ rgb \in {<<c>> : c \in SetColours}
    /\ hex = <<>>
    /\ via = "none"
    /\ Idle

\* let mut color = RGB48::from_rgb(r, g, b);
InitSetWide ==
    /\ hex = <<>>
    /\ via = "none"
    /\ out = NoCall
    /\ fargs = <<>>
    /\ fres = <<>>
    /\ hsv = NoCall
    /\ arg = <<>>
    /\ last = "from_rgb48"
    /\ rgb = <<>>
    /\ wide \in {<<c>> : c \in WideSetColours}

InitSet == InitSetNarrow \/ InitSetWide

\* color.set_red(x) on the RGB24 held
SetRed ==
    /\ rgb # <<>>
    /\ \E x \in SetSamples :
          /\ rgb' = <<set_red(rgb[1], x)>>
          /\ arg' = <<x>>
    /\ last' = "set_red"
    /\ UNCHANGED <<hex, via, out, fargs, fres, hsv, wide>>

\* color.set_green(x) on the RGB24 held
SetGreen ==
    /\ rgb # <<>>
    /\ \E x \in SetSamples :
          /\ rgb' = <<set_green(rgb[1], x)>>
          /\ arg' = <<x>>
    /\ last' = "set_green"
    /\ UNCHANGED <<hex, via, out, fargs, fres, hsv, wide>>

\* color.set_blue(x) on the RGB24 held
SetBlue ==
    /\ rgb # <<>>
    /\ \E x \in SetSamples :
          /\ rgb' = <<set_blue(rgb[1], x)>>
          /\ arg' = <<x>>
    /\ last' = "set_blue"
    /\ UNCHANGED <<hex, via, out, fargs, fres, hsv, wide>>

\* color.set_r(x) on the RGB48 held
SetR ==
    /\ wide # <<>>
    /\ \E x \in WideSetSamples :
          /\ wide' = <<set_r(wide[1], x)>>
          /\ arg' = <<x>>
    /\ last' = "set_r"
    /\ UNCHANGED <<rgb, hex, via, out, fargs, fres, hsv>>

\* color.set_g(x) on the RGB48 held
SetG ==
    /\ wide # <<>>
    /\ \E x \in WideSetSamples :
          /\ wide' = <<set_g(wide[1], x)>>
          /\ arg' = <<x>>
    /\ last' = "set_g"
    /\ UNCHANGED <<rgb, hex, via, out, fargs, fres, hsv>>

\* color.set_b(x) on the RGB48 held
SetB ==
    /\ wide # <<>>
    /\ \E x \in WideSetSamples :
          /\ wide' = <<set_b(wide[1], x)>>
          /\ arg' = <<x>>
    /\ last' = "set_b"
    /\ UNCHANGED <<rgb, hex, via, out, fargs, fres, hsv>>

\* ---- RGB24 from fractions ----

\* The arguments (r, g, b) of from_rgb_f64.
InitFractions ==
    /\ last = "input"
    /\ NoHex
    /\ fargs \in {<<r, g, b>> : r \in FractionInputs, g \in FractionInputs,
                                b \in FractionInputs}
    /\ fres = <<>>
    /\ hsv = NoCall

\* let color = RGB24::from_rgb_f64(r, g, b);
FromRgbF64 ==
    /\ Len(fargs) = 3
    /\ last = "input"
    /\ rgb' = <<from_rgb_f64(fargs[1], fargs[2], fargs[3])>>
    /\ last' = "from_rgb_f64"
    /\ UNCHANGED <<hex, via, out, fargs, fres, hsv, wide, arg>>

Init ==
    \/ InitHex
    \/ InitNum
    \/ InitHsv
    \/ InitHsvOps
    \/ InitConv
    \/ InitDepth
    \/ InitSet
    \/ InitFractions
    \/ InitColor

NextHex == ToHex \/ ToHexShort \/ FromHex \/ Bind \/ ParsedToHexShort
NextNum == ToU8Repr \/ ToU16Repr \/ ApproxEqual
NextHsv == FromHsv
NextHsvOps ==
    Default \/ FromHsv \/ FromTuple \/ FromHsvU8 \/ SetH \/ SetS \/ SetV \/ AsTupleU8
NextConv ==
    Rgb24ToHsv \/ Rgb48ToHsv \/ FromHsv \/ ToRgb24 \/ ToRgb48 \/ Keep24 \/ Keep48
NextDepth == Upscale \/ Downscale \/ Keep24 \/ Keep48
NextSet == SetRed \/ SetGreen \/ SetBlue \/ SetR \/ SetG \/ SetB
NextFractions == FromRgbF64 \/ ToHex
NextHsvRgb == FromHsv \/ SetH \/ ToRgb24 \/ ToRgb48
NextColor == ColorFromHex \/ Bind \/ ColorToHex3
NextDepthHsv == Upscale \/ Keep48 \/ Rgb48ToHsv
NextShade == Rgb24ToHsv \/ Rgb48ToHsv \/ IsWhite \/ IsBlack

Next ==
    \/ NextHex
    \/ NextNum
    \/ NextHsv
    \/ NextHsvOps
    \/ NextConv
    \/ NextDepth
    \/ NextSet
    \/ NextFractions
    \/ NextHsvRgb
    \/ NextColor
    \/ NextDepthHsv
    \/ NextShade

\* The hexadecimal codec of RGB24.
SpecHex == InitHex /\ [][NextHex]_vars

\* number_utils.
SpecNum == InitNum /\ [][NextNum]_vars

\* The HSV constructor.
SpecHsv == InitHsv /\ [][NextHsv]_vars

\* The HSV constructors followed by the setters.
SpecHsvOps == InitHsvOps /\ [][NextHsvOps]_vars

\* The conversions between RGB and HSV.
SpecConv == InitConv /\ [][NextConv]_vars

\* The conversions between the colour depths.
SpecDepth == InitDepth /\ [][NextDepth]_vars

\* The RGB setters.
SpecSet == InitSet /\ [][NextSet]_vars

\* RGB24 from fractions, then to_hex.
SpecFractions == InitFractions /\ [][NextFractions]_vars

\* An HSV value, its hue set to anything, converted to RGB.
SpecHsvRgb == InitConvArgs /\ [][NextHsvRgb]_vars

\* The first RGB type: parsing and the three-digit form.
SpecColor == InitColor /\ [][NextColor]_vars

\* An RGB24 colour widened to RGB48 and then converted to HSV.
SpecDepthHsv == InitColour /\ [][NextDepthHsv]_vars

\* White and black before and after the conversion to HSV.
SpecShade == InitShade /\ [][NextShade]_vars

Spec == Init /\ [][Next]_vars

\* -------------------------------------------------------------------------
\* Properties of the hexadecimal codec (SpecHex)
\* -------------------------------------------------------------------------

\* Every character of s is one of 0-9, a-f, A-F.
AllHexDigits(s) == \A i \in 1..Len(s) : s[i] \in HexChars

RECURSIVE HexValue(_)
\* The number a string of lowercase hex digits denotes, most significant
\* digit first.
HexValue(s) ==
    IF s = <<>> THEN 0
    ELSE 16 * HexValue(SubSeq(s, 1, Len(s) - 1))
         + (CHOOSE i \in 0..15 : LowerDigits[i + 1] = s[Len(s)])

IsLowerHex(s) == \A i \in 1..Len(s) : \E j \in 1..16 : LowerDigits[j] = s[i]

\* The value 0..15 of a hex digit of either case.
DigitValue(c) ==
    CHOOSE x \in 0..15 : c = LowerDigits[x + 1] \/ (x >= 10 /\ c = UpperLetters[x - 9])

\* C1: from_hex(from_rgb(r, g, b).to_hex()) = from_rgb(r, g, b): the string
\* to_hex produced from the colour held has six characters and from_hex
\* returns that same colour for it.
C1_HexRoundTrip ==
    (last = "from_hex" /\ via = "to_hex")
        => (Len(hex) = 6 /\ out = Returned(rgb[1]))

C1_Witness ==
    /\ last = "from_hex"
    /\ via = "to_hex"
    /\ rgb = <<from_rgb(255, 51, 153)>>
    /\ hex = <<"f", "f", "3", "3", "9", "9">>
    /\ out = Returned(from_rgb(255, 51, 153))

\* C2: from_hex returns a colour only for strings of exactly 3 or exactly 6
\* characters that are all hex digits, and fails for every other string.
C2_OnlyHexDigitStrings ==
    (last = "from_hex")
        => (out.ok <=> (Len(hex) \in {3, 6} /\ AllHexDigits(hex)))

\* C3: a string of hex digits only whose length is not 3 or 6 fails with the
\* length error, and a string of length 3 or 6 with a character that is no
\* hex digit fails with the digit error.
C3_FailureByCause ==
    (last = "from_hex")
        => /\ (AllHexDigits(hex) /\ Len(hex) \notin {3, 6})
                  => out = Panicked("HEX number has invalid length")
           /\ (~AllHexDigits(hex) /\ Len(hex) \in {3, 6})
                  => out = Panicked("HEX is invalid")

\* C4: for a string of three hex digits d1 d2 d3 of either case from_hex
\* returns the colour (17 * v(d1), 17 * v(d2), 17 * v(d3)).
C4_ShortHexExpands ==
    (last = "from_hex" /\ Len(hex) = 3 /\ AllHexDigits(hex))
        => out = Returned(from_rgb(17 * DigitValue(hex[1]),
                                   17 * DigitValue(hex[2]),
                                   17 * DigitValue(hex[3])))

C4_Witness ==
    /\ last = "from_hex"
    /\ hex = <<"F", "3", "9">>
    /\ out = Returned(from_rgb(255, 51, 153))

\* The colours that differ from c in one channel by one, or by a swap or a
\* rotation of the channels.
Nearby(c) ==
    {from_rgb(c.g, c.r, c.b), from_rgb(c.r, c.b, c.g), from_rgb(c.b, c.g, c.r),
     from_rgb(c.g, c.b, c.r), from_rgb(c.b, c.r, c.g)}
    \cup {from_rgb(x, c.g, c.b) : x \in {c.r - 1, c.r + 1} \cap (0..CHANNEL_MAX)}
    \cup {from_rgb(c.r, x, c.b) : x \in {c.g - 1, c.g + 1} \cap (0..CHANNEL_MAX)}
    \cup {from_rgb(c.r, c.g, x) : x \in {c.b - 1, c.b + 1} \cap (0..CHANNEL_MAX)}

\* C5: to_hex returns exactly six lowercase hex digits that denote
\* r * 65536 + g * 256 + b, the colour can be read back from that number,
\* and no other colour near it or among the test colours gives the string.
C5_ToHexSixDigits ==
    (last = "to_hex")
        => LET c == rgb[1]
           IN /\ Len(hex) = 6
              /\ IsLowerHex(hex)
              /\ HexValue(hex) = c.r * 65536 + c.g * 256 + c.b
              /\ c = from_rgb(HexValue(hex) \div 65536,
                              (HexValue(hex) \div 256) % 256,
                              HexValue(hex) % 256)
              /\ \A c2 \in Nearby(c) \cup TestColours :
                    c2 # c => to_hex(c2) # hex

C5_Witness ==
    /\ last = "to_hex"
    /\ rgb = <<from_rgb(1, 27, 49)>>
    /\ hex = <<"0", "1", "1", "b", "3", "1">>

\* The level 0..15 nearest to c * 15 / 255.
NearestLevel(c) ==
    CHOOSE l \in 0..15 :
        \A m \in 0..15 :
            LET dl == 15 * c - CHANNEL_MAX * l
                dm == 15 * c - CHANNEL_MAX * m
            IN (IF dl < 0 THEN -dl ELSE dl) <= (IF dm < 0 THEN -dm ELSE dm)

\* C6: to_hex_short returns exactly three lowercase hex digits, the digit of
\* each channel c being the level nearest to c * 15 / 255; (240, 240, 240)
\* gives "eee", (16, 32, 48) gives "123", (160, 196, 237) gives "9ce".
C6_ToHexShortNearest ==
    (last = "to_hex_short")
        => LET c == rgb[1]
           IN /\ hex = <<LowerDigits[NearestLevel(c.r) + 1],
                         LowerDigits[NearestLevel(c.g) + 1],
                         LowerDigits[NearestLevel(c.b) + 1]>>
              /\ c = from_rgb(240, 240, 240) => hex = <<"e", "e", "e">>
              /\ c = from_rgb(16, 32, 48) => hex = <<"1", "2", "3">>
              /\ c = from_rgb(160, 196, 237) => hex = <<"9", "c", "e">>

C6_Witness ==
    /\ last = "to_hex_short"
    /\ rgb = <<from_rgb(160, 196, 237)>>
    /\ hex = <<"9", "c", "e">>

\* -------------------------------------------------------------------------
\* Properties of number_utils (SpecNum)
\* -------------------------------------------------------------------------

\* The channel value the contract gives for the fraction f and the channel
\* maximum max: max at 1 and above, 0 at zero and below and for NaN,
\* otherwise f * max rounded to the nearest integer, halves upwards.
ContractChannel(f, max) ==
    IF is_nan(f) THEN 0
    ELSE IF is_infinite(f) THEN (IF f.sg = 1 THEN max ELSE 0)
    ELSE IF f.n = 0 \/ f.sg = -1 THEN 0
    ELSE IF f.e > 0 THEN 0
    ELSE IF f.n >= f.d THEN max
    ELSE LET g == GCD(max, f.d)
         IN (2 * f.n * (max \div g) + (f.d \div g)) \div (2 * (f.d \div g))

\* C7: to_u8_repr and to_u16_repr return the channel maximum for f >= 1 and
\* +infinity, 0 for f <= 0 (with -0.0 and -infinity) and for NaN, and
\* round(f * max) with halves away from zero otherwise; to_u8_repr(0.5) is
\* 128 and to_u8_repr(0.2) is 51; the call always returns.
C7_ChannelRepr ==
    /\ (last = "to_u8_repr")
           => /\ fres = <<ContractChannel(fargs[1], 255)>>
              /\ fargs[1] = Rat(1, 2) => fres = <<128>>
              /\ fargs[1] = Rat(1, 5) => fres = <<51>>
    /\ (last = "to_u16_repr")
           => /\ fres = <<ContractChannel(fargs[1], 65535)>>
              /\ fargs[1] = Rat(1, 2) => fres = <<32768>>

C7_Witness ==
    /\ last = "to_u8_repr"
    /\ fargs = <<Rat(1, 2)>>
    /\ fres = <<128>>

\* C8: approx_equal_f64(a, b, eps) is true for two NaN, false when exactly
\* one of a, b is not finite, true for two infinities of the same sign,
\* false for two of opposite signs and for a NaN with an infinity, and
\* |a - b| < eps for two finite values; when a or b is not finite the result
\* is the same for every eps.
C8_ApproxEqual ==
    (last = "approx_equal_f64")
        => LET a == fargs[1]
               b == fargs[2]
               eps == fargs[3]
               r == fres[1]
           IN /\ (is_nan(a) /\ is_nan(b)) => r
              /\ (is_finite(a) # is_finite(b)) => ~r
              /\ (is_infinite(a) /\ is_infinite(b) /\ a.sg = b.sg) => r
              /\ (is_infinite(a) /\ is_infinite(b) /\ a.sg # b.sg) => ~r
              /\ (is_nan(a) /\ is_infinite(b)) => ~r
              /\ (is_infinite(a) /\ is_nan(b)) => ~r
              /\ (is_finite(a) /\ is_finite(b))
                     => (r <=> FLt(FAbs(FSub(a, b)), eps))
              /\ (a = Rat(1, 4) /\ b = Rat(1, 2))
                     => (r <=> eps \in {Rat(1, 2), AsF64(1), AsF64(2), INFINITY})
              /\ (~is_finite(a) \/ ~is_finite(b))
                     => \A e2 \in EpsInputs : approx_equal_f64(a, b, e2) = r

C8_Witness ==
    /\ last = "approx_equal_f64"
    /\ fargs = <<NAN, NAN, AsF64(-1)>>
    /\ fres = <<TRUE>>

\* -------------------------------------------------------------------------
\* Properties of HSV::from_hsv (SpecHsv)
\* -------------------------------------------------------------------------

\* C9: from_hsv fails with the NaN message whenever h, s or v is NaN, fails
\* whenever h is infinite (with the message that h must be finite when no
\* argument is NaN), and returns an HSV for every finite h with s and v not
\* NaN, infinite s or v included.
C9_FromHsvFailures ==
    (last = "from_hsv")
        => LET h == fargs[1]
               s == fargs[2]
               v == fargs[3]
               anyNaN == is_nan(h) \/ is_nan(s) \/ is_nan(v)
           IN /\ anyNaN => hsv = Panicked(NanMessage)
              /\ is_infinite(h) => ~hsv.ok
              /\ (is_infinite(h) /\ ~anyNaN) => hsv = Panicked(HueMessage)
              /\ (is_finite(h) /\ ~is_nan(s) /\ ~is_nan(v))
                     => (hsv.ok /\ Len(hsv.val) = 1)

C9_Witness ==
    /\ last = "from_hsv"
    /\ fargs = <<AsF64(10), INFINITY, INFINITY>>
    /\ hsv = Returned([h |-> AsF64(10), s |-> AsF64(1), v |-> AsF64(1)])

\* x clamped to [0, 1].
Clamped01(x) ==
    IF FLe(x, AsF64(0)) THEN AsF64(0)
    ELSE IF FGe(x, AsF64(1)) THEN AsF64(1)
    ELSE x

\* h modulo 360 in [0, 360) for an h of ordinary size: the sign times n / d,
\* reduced modulo 360.
Mod360(h) == Rat((h.sg * h.n) % (360 * h.d), h.d)

\* C10: for finite h and s, v not NaN from_hsv stores a hue in [0, 360),
\* equal to h modulo 360 (-1 gives 359, 361 gives 1, 360 gives 0), and
\* stores s and v clamped to [0, 1].
C10_WrapAndClamp ==
    (last = "from_hsv" /\ is_finite(fargs[1]) /\ ~is_nan(fargs[2])
        /\ ~is_nan(fargs[3]))
        => /\ hsv.ok
           /\ LET c == hsv.val[1]
              IN /\ FGe(c.h, AsF64(0))
                 /\ FLt(c.h, AsF64(360))
                 /\ fargs[1].e = 0 => FEq(c.h, Mod360(fargs[1]))
                 /\ c.s = Clamped01(fargs[2])
                 /\ c.v = Clamped01(fargs[3])

\* -------------------------------------------------------------------------
\* Properties of the HSV constructors and setters (SpecHsvOps)
\* -------------------------------------------------------------------------

\* 0 <= h < 360, 0 <= s <= 1 and 0 <= v <= 1.
InHsvRange(c) ==
    /\ FLe(AsF64(0), c.h)
    /\ FLt(c.h, AsF64(360))
    /\ FLe(AsF64(0), c.s)
    /\ FLe(c.s, AsF64(1))
    /\ FLe(AsF64(0), c.v)
    /\ FLe(c.v, AsF64(1))

\* C11: every HSV value reached through Default, from_hsv, From<tuple> or
\* from_hsv_u8, followed by any sequence of set_h / set_s / set_v calls, has
\* 0 <= h < 360, 0 <= s <= 1 and 0 <= v <= 1.
C11_HsvInvariant == hsv.ok => InHsvRange(hsv.val[1])

\* -------------------------------------------------------------------------
\* Properties of the conversions between RGB and HSV (SpecConv)
\* -------------------------------------------------------------------------

Max3(a, b, c) ==
    IF a >= b /\ a >= c THEN a ELSE IF b >= c THEN b ELSE c
Min3(a, b, c) ==
    IF a <= b /\ a <= c THEN a ELSE IF b <= c THEN b ELSE c

\* The colour rgb_to_hsv was last given and the maximum of its channels.
SourceColour == IF rgb # <<>> THEN rgb[1] ELSE wide[1]
SourceMax == IF rgb # <<>> THEN CHANNEL_MAX ELSE RGB48_MAX

\* The hue of the claim, from the integer channels: 60 * (x mod 6) with the
\* mathematical modulo, as a fraction over delta.
ClaimedHue(c) ==
    LET mx == Max3(c.r, c.g, c.b)
        delta == mx - Min3(c.r, c.g, c.b)
    IN IF delta = 0 THEN AsF64(0)
       ELSE IF c.r = mx THEN Rat((60 * (c.g - c.b)) % (360 * delta), delta)
       ELSE IF c.g = mx THEN Rat(60 * (c.b - c.r) + 120 * delta, delta)
       ELSE Rat(60 * (c.r - c.g) + 240 * delta, delta)

ClaimedSaturation(c) ==
    LET mx == Max3(c.r, c.g, c.b)
    IN IF mx > 0 THEN Rat(mx - Min3(c.r, c.g, c.b), mx) ELSE AsF64(0)

\* C12: rgb_to_hsv returns value = max / MAX, saturation = (max - min) / max
\* (0 for black) and the hue of the sector of the maximal channel (red
\* before green before blue), for 8-bit and 16-bit colours; white, black,
\* red, green and blue give (0,0,1), (0,0,0), (0,1,1), (120,1,1), (240,1,1).
C12_RgbToHsvFormula ==
    (last = "to_hsv")
        => /\ hsv.ok
           /\ LET c == SourceColour
                  res == hsv.val[1]
              IN /\ FEq(res.v, Rat(Max3(c.r, c.g, c.b), SourceMax))
                 /\ FEq(res.s, ClaimedSaturation(c))
                 /\ FEq(res.h, ClaimedHue(c))
                 /\ \A m \in {SourceMax} :
                      /\ c = [r |-> m, g |-> m, b |-> m] => res = HSV_WHITE
                      /\ c = [r |-> 0, g |-> 0, b |-> 0] => res = HSV_BLACK
                      /\ c = [r |-> m, g |-> 0, b |-> 0] => res = HSV_RED
                      /\ c = [r |-> 0, g |-> m, b |-> 0] => res = HSV_GREEN
                      /\ c = [r |-> 0, g |-> 0, b |-> m] => res = HSV_BLUE

C12_Witness ==
    /\ last = "to_hsv"
    /\ rgb = <<from_rgb(0, 255, 127)>>
    /\ hsv.ok
    /\ FEq(hsv.val[1].h, Rat(2548, 17))
    /\ FEq(hsv.val[1].s, AsF64(1))

CanonicalHues == {AsF64(60 * k) : k \in 0..5}

\* C13: HSV(h, 1, 1) with h one of 0, 60, 120, 180, 240, 300, converted to
\* RGB24 or RGB48 and back with rgb_to_hsv, is exactly (h, 1, 1).
C13_CanonicalRoundTrip ==
    (/\ last = "to_hsv"
     /\ Len(fargs) = 3
     /\ fargs[1] \in CanonicalHues
     /\ fargs[2] = AsF64(1)
     /\ fargs[3] = AsF64(1))
        => /\ hsv.ok
           /\ hsv.val[1] = [h |-> fargs[1], s |-> AsF64(1), v |-> AsF64(1)]

C13_Witness ==
    /\ last = "to_hsv"
    /\ fargs = <<AsF64(300), AsF64(1), AsF64(1)>>
    /\ wide = <<rgb48_from_rgb(RGB48_MAX, 0, RGB48_MAX)>>
    /\ hsv = Returned([h |-> AsF64(300), s |-> AsF64(1), v |-> AsF64(1)])

\* C14: an RGB24 colour converted to HSV and back to RGB24 is the colour
\* itself.
C14_Rgb24RoundTrip ==
    (last = "to_rgb24" /\ rgb # <<>>) => (out.ok /\ out.val = rgb)

C14_Witness ==
    /\ last = "to_rgb24"
    /\ rgb = <<from_rgb(0, 255, 127)>>
    /\ hsv.ok
    /\ out = Returned(from_rgb(0, 255, 127))

\* C20: the HSV value rgb_to_hsv returns has 0 <= h < 360, 0 <= s <= 1 and
\* 0 <= v <= 1; where red is the maximum and g < b the hue computed first
\* is negative and the hue returned is that hue plus 360.
C20_RgbToHsvRange ==
    (last = "to_hsv")
        => /\ hsv.ok
           /\ InHsvRange(hsv.val[1])
           /\ LET c == SourceColour
                  t == IF rgb # <<>> THEN as_tuple_f64(c)
                       ELSE rgb48_as_tuple_f64(c)
                  hue == rgb_hue(t[1], t[2], t[3])
              IN (c.r >= c.g /\ c.r >= c.b /\ c.g < c.b)
                    => /\ FLt(hue, AsF64(0))
                       /\ FEq(hsv.val[1].h, FAdd(hue, AsF64(360)))

C20_Witness ==
    /\ last = "to_hsv"
    /\ rgb = <<from_rgb(255, 0, 128)>>
    /\ hsv.ok
    /\ FGt(hsv.val[1].h, AsF64(300))
    /\ FLt(hsv.val[1].h, AsF64(360))

\* -------------------------------------------------------------------------
\* Properties of the conversions between the colour depths (SpecDepth)
\* -------------------------------------------------------------------------

Channels == {"r", "g", "b"}

\* C15: an RGB24 colour upscaled with rgb24_to_rgb48 and downscaled with
\* rgb48_to_rgb24 is the colour itself.
C15_DownAfterUp ==
    (last = "rgb48_to_rgb24" /\ rgb # <<>>) => (out.ok /\ out.val = rgb)

C15_Witness ==
    /\ last = "rgb48_to_rgb24"
    /\ rgb = <<from_rgb(160, 196, 237)>>
    /\ wide = <<rgb48_from_rgb(41120, 50372, 60909)>>
    /\ out = Returned(from_rgb(160, 196, 237))

\* C16: rgb24_to_rgb48 multiplies every channel by 257 = 65535 / 255 (an
\* exact quotient); no product exceeds 65535; 255 gives 65535 and 0 gives 0
\* (white, black, red, green and blue give their 48-bit counterparts).
C16_UpscaleBy257 ==
    (last = "rgb24_to_rgb48")
        => /\ out.ok
           /\ FACTOR = 257
           /\ FACTOR * CHANNEL_MAX = RGB48_MAX
           /\ \A ch \in Channels :
                /\ out.val[1][ch] = 257 * rgb[1][ch]
                /\ rgb[1][ch] * FACTOR <= 65535
                /\ rgb[1][ch] = 255 => out.val[1][ch] = 65535
                /\ rgb[1][ch] = 0 => out.val[1][ch] = 0

C16_Witness ==
    /\ last = "rgb24_to_rgb48"
    /\ rgb = <<from_rgb(255, 0, 165)>>
    /\ wide = <<>>
    /\ out = Returned(rgb48_from_rgb(65535, 0, 42405))

\* C17: rgb48_to_rgb24 gives floor(c / 257) for every channel c, a value of
\* at most 255; upscaling the result gives a colour that is channel-wise at
\* most the 16-bit colour and equal to it exactly when every channel is a
\* multiple of 257.
C17_DownscaleFloors ==
    /\ (last = "rgb48_to_rgb24")
          => /\ out.ok
             /\ \A ch \in Channels :
                  /\ out.val[1][ch] = wide[1][ch] \div 257
                  /\ wide[1][ch] \div 257 <= 255
    /\ (last = "rgb24_to_rgb48" /\ wide # <<>>)
          => /\ out.ok
             /\ \A ch \in Channels : out.val[1][ch] <= wide[1][ch]
             /\ (out.val = wide)
                    <=> (\A ch \in Channels : wide[1][ch] % 257 = 0)

C17_Witness ==
    /\ last = "rgb24_to_rgb48"
    /\ wide = <<rgb48_from_rgb(65534, 258, 0)>>
    /\ rgb = <<from_rgb(254, 1, 0)>>
    /\ out = Returned(rgb48_from_rgb(65278, 257, 0))
    /\ out.val # wide

\* -------------------------------------------------------------------------
\* Properties of the RGB setters (SpecSet)
\* -------------------------------------------------------------------------

\* A setter call on the RGB24 held replaced channel ch by the argument and
\* kept the two others.
Replaced24(ch) ==
    /\ rgb'[1][ch] = arg'[1]
    /\ \A other \in Channels \ {ch} : rgb'[1][other] = rgb[1][other]

\* The same for the RGB48 held.
Replaced48(ch) ==
    /\ wide'[1][ch] = arg'[1]
    /\ \A other \in Channels \ {ch} : wide'[1][other] = wide[1][other]

SetterStep ==
    /\ last' = "set_red" => Replaced24("r")
    /\ last' = "set_green" => Replaced24("g")
    /\ last' = "set_blue" => Replaced24("b")
    /\ last' = "set_r" => Replaced48("r")
    /\ last' = "set_g" => Replaced48("g")
    /\ last' = "set_b" => Replaced48("b")

\* Two setters on different channels give the same colour in either order.
SettersCommute ==
    /\ rgb # <<>> =>
         \A x \in SetSamples, y \in SetSamples :
            /\ set_red(set_green(rgb[1], x), y) = set_green(set_red(rgb[1], y), x)
            /\ set_red(set_blue(rgb[1], x), y) = set_blue(set_red(rgb[1], y), x)
            /\ set_green(set_blue(rgb[1], x), y) = set_blue(set_green(rgb[1], y), x)
    /\ wide # <<>> =>
         \A x \in WideSetSamples, y \in WideSetSamples :
            /\ set_r(set_g(wide[1], x), y) = set_g(set_r(wide[1], y), x)
            /\ set_r(set_b(wide[1], x), y) = set_b(set_r(wide[1], y), x)
            /\ set_g(set_b(wide[1], x), y) = set_b(set_g(wide[1], y), x)

\* C18: in any sequence of setter calls on an RGB24 or RGB48 colour every
\* call replaces exactly its own channel by its argument and leaves the two
\* other channels as they were (so each accessor returns the value set last
\* for its channel, or the initial one), and setters on different channels
\* commute.
C18_SettersFrame == [][SetterStep]_vars /\ []SettersCommute

C18_Witness ==
    /\ last = "set_g"
    /\ arg = <<42>>
    /\ wide = <<rgb48_from_rgb(65535, 42, 3)>>

\* -------------------------------------------------------------------------
\* Properties of RGB24::from_rgb_f64 (SpecFractions)
\* -------------------------------------------------------------------------

\* C19: from_rgb_f64(f, f, f).to_hex() is "000000" for f = 0.0, "333333"
\* for 0.2, "7f7f7f" for 0.5 and "ffffff" for 1.0.
C19_FractionsToHex ==
    (last = "to_hex" /\ Len(fargs) = 3)
        => /\ fargs = <<AsF64(0), AsF64(0), AsF64(0)>>
                => hex = <<"0", "0", "0", "0", "0", "0">>
           /\ fargs = <<Rat(1, 5), Rat(1, 5), Rat(1, 5)>>
                => hex = <<"3", "3", "3", "3", "3", "3">>
           /\ fargs = <<Rat(1, 2), Rat(1, 2), Rat(1, 2)>>
                => hex = <<"7", "f", "7", "f", "7", "f">>
           /\ fargs = <<AsF64(1), AsF64(1), AsF64(1)>>
                => hex = <<"f", "f", "f", "f", "f", "f">>

\* -------------------------------------------------------------------------
\* Properties of hsv_to_rgb (SpecConv, SpecHsvRgb)
\* -------------------------------------------------------------------------

\* The sector table with the sectors closed below and open above.
SectorTable(hp, chroma, x) ==
    LET zero == AsF64(0)
    IN IF FLe(AsF64(0), hp) /\ FLt(hp, AsF64(1)) THEN <<chroma, x, zero>>
       ELSE IF FLe(AsF64(1), hp) /\ FLt(hp, AsF64(2)) THEN <<x, chroma, zero>>
       ELSE IF FLe(AsF64(2), hp) /\ FLt(hp, AsF64(3)) THEN <<zero, chroma, x>>
       ELSE IF FLe(AsF64(3), hp) /\ FLt(hp, AsF64(4)) THEN <<zero, x, chroma>>
       ELSE IF FLe(AsF64(4), hp) /\ FLt(hp, AsF64(5)) THEN <<x, zero, chroma>>
       ELSE <<chroma, zero, x>>

\* The colour of the target type with the channels of the fractions t + m.
ChannelsOf(t, m, max) ==
    [r |-> ContractChannel(FAdd(t[1], m), max),
     g |-> ContractChannel(FAdd(t[2], m), max),
     b |-> ContractChannel(FAdd(t[3], m), max)]

ConvertedToRgb == last \in {"to_rgb24", "to_rgb48"}
TargetMax == IF last = "to_rgb24" THEN CHANNEL_MAX ELSE RGB48_MAX

\* C21: for 0 <= h < 360 the triple calc_hsv chooses with its sectors closed
\* above is the triple of the sector table with the sectors closed below,
\* also at h = 60, 120, 180, 240, 300, and hsv_to_rgb returns the colour of
\* that triple.
C21_SectorsAgree ==
    (/\ ConvertedToRgb
     /\ FLe(AsF64(0), hsv.val[1].h)
     /\ FLt(hsv.val[1].h, AsF64(360)))
        => LET c == hsv.val[1]
               chroma == FMul(c.v, c.s)
               hp == FDiv(c.h, AsF64(60))
               x == FMul(chroma,
                         FSub(AsF64(1), FAbs(FSub(FRem(hp, AsF64(2)), AsF64(1)))))
               t == SectorTable(hp, chroma, x)
               u == calc_hsv(hp, chroma, x)
           IN /\ \A i \in 1..3 : FEq(u[i], t[i])
              /\ out = Returned(ChannelsOf(t, FSub(c.v, chroma), TargetMax))

C21_Witness ==
    /\ last = "to_rgb24"
    /\ hsv = Returned([h |-> AsF64(120), s |-> Rat(1, 2), v |-> AsF64(1)])
    /\ out = Returned(from_rgb(128, 255, 128))

\* C22: hsv_to_rgb of an HSV value with hue exactly 360 (set with set_h)
\* returns the colour it returns for hue 0 with the same s and v.
C22_Hue360AsHue0 ==
    (ConvertedToRgb /\ FEq(hsv.val[1].h, AsF64(360)))
        => LET c == hsv.val[1]
               zero == AsF64(0)
               chroma == FMul(c.v, c.s)
           IN /\ out = Returned(ChannelsOf(<<chroma, zero, zero>>,
                                           FSub(c.v, chroma), TargetMax))
              /\ out.val[1] = hsv_to_rgb(set_h(c, AsF64(0)),
                                         IF last = "to_rgb24" THEN "RGB24"
                                         ELSE "RGB48")

C22_Witness ==
    /\ last = "to_rgb24"
    /\ hsv = Returned([h |-> AsF64(360), s |-> AsF64(1), v |-> Rat(1, 2)])
    /\ out = Returned(from_rgb(128, 0, 0))

\* C23: hsv_to_rgb of an HSV value with a NaN hue (set with set_h) and
\* valid s and v returns the gray whose three channels are the channel
\* representation of v - v * s.
C23_NanHueGray ==
    (ConvertedToRgb /\ is_nan(hsv.val[1].h))
        => LET c == hsv.val[1]
               gray == ContractChannel(FSub(c.v, FMul(c.v, c.s)), TargetMax)
           IN out = Returned([r |-> gray, g |-> gray, b |-> gray])

C23_Witness ==
    /\ last = "to_rgb48"
    /\ hsv = Returned([h |-> NAN, s |-> Rat(1, 2), v |-> AsF64(1)])
    /\ out = Returned(rgb48_from_rgb(32768, 32768, 32768))

\* -------------------------------------------------------------------------
\* Properties of the byte forms of HSV (SpecHsvOps)
\* -------------------------------------------------------------------------

\* The byte b mapped linearly onto [0, max]: b / 255 * max.
ByteOnto(b, max) == Rat(b * max, U8_MAX)

\* C24: from_hsv_u8(h, s, v) returns the HSV value with hue h / 255 * 360,
\* saturation s / 255 and value v / 255: the hue byte 0 gives 0.0 and the
\* hue byte 255 gives 360.0, (255, 255, 255) gives (360.0, 1.0, 1.0) and
\* (51, 51, 51) gives (72.0, 0.2, 0.2).
C24_BytesLinear ==
    last = "from_hsv_u8"
        => /\ hsv.ok
           /\ FEq(hsv.val[1].h, ByteOnto(arg[1], 360))
           /\ FEq(hsv.val[1].s, ByteOnto(arg[2], 1))
           /\ FEq(hsv.val[1].v, ByteOnto(arg[3], 1))
           /\ arg = <<255, 255, 255>>
                => hsv.val[1] = [h |-> AsF64(360), s |-> AsF64(1), v |-> AsF64(1)]
           /\ arg = <<51, 51, 51>>
                => hsv.val[1] = [h |-> AsF64(72), s |-> Rat(1, 5), v |-> Rat(1, 5)]

\* The integer part of f * 255 / max for a finite f >= 0 of ordinary size.
TruncByte(f, max) == (f.n * U8_MAX) \div (f.d * max)

\* The value was built by from_hsv, From<tuple> or from_hsv_u8 and no
\* setter was called on it.
BuiltByFromHsv == Len(fargs) = 3 \/ Len(arg) = 3

\* C25: as_tuple_u8 returns (trunc(h / 360 * 255), trunc(s * 255),
\* trunc(v * 255)); from_hsv(360, 1, 1) gives (0, 255, 255) and
\* from_hsv(180, 0.5, 0.2) gives (127, 127, 51); for a value built by
\* from_hsv the hue byte is never 255.
C25_AsTupleU8 ==
    (last = "as_tuple_u8" /\ BuiltByFromHsv)
        => LET c == hsv.val[1]
               t == fres[1]
           IN /\ t = <<TruncByte(c.h, 360), TruncByte(c.s, 1), TruncByte(c.v, 1)>>
              /\ t[1] # U8_MAX
              /\ fargs = <<AsF64(360), AsF64(1), AsF64(1)>> => t = <<0, 255, 255>>
              /\ fargs = <<AsF64(180), Rat(1, 2), Rat(1, 5)>> => t = <<127, 127, 51>>

\* -------------------------------------------------------------------------
\* Properties of Color (SpecColor)
\* -------------------------------------------------------------------------

\* The first hex digit of the channel c.
FirstDigit(c) == LowerDigits[(c \div 16) + 1]

\* C26: Color::to_hex_3 returns the three-digit string of the first hex
\* digits of red, green and blue: white gives "fff", black "000", red
\* "f00", the colour parsed from "a0c4ed" gives "ace" and the one parsed
\* from "102030" gives "123".
C26_ToHex3FirstDigits ==
    last = "to_hex_3"
        => LET c == rgb[1]
           IN /\ fres[1] = <<FirstDigit(c.r), FirstDigit(c.g), FirstDigit(c.b)>>
              /\ c = WHITE => fres[1] = <<"f", "f", "f">>
              /\ c = BLACK => fres[1] = <<"0", "0", "0">>
              /\ c = from_rgb(255, 0, 0) => fres[1] = <<"f", "0", "0">>
              /\ c = from_rgb(160, 196, 237) => fres[1] = <<"a", "c", "e">>
              /\ c = from_rgb(16, 32, 48) => fres[1] = <<"1", "2", "3">>

\* -------------------------------------------------------------------------
\* The short form of a parsed short string (SpecHex)
\* -------------------------------------------------------------------------

\* The string s of hex digits in lowercase.
Lowercase(s) == [i \in 1..Len(s) |-> LowerDigits[to_digit(s[i]) + 1]]

\* C27: for every string s of three hex digits, from_hex(s).to_hex_short()
\* is s in lowercase.
C27_ShortOfParsedShort ==
    (last = "from_hex.to_hex_short" /\ Len(hex) = 3 /\ AllHexDigits(hex))
        => fres = <<Lowercase(hex)>>

C27_Witness ==
    /\ last = "from_hex.to_hex_short"
    /\ hex = <<"A", "b", "7">>
    /\ out = Returned(from_rgb(170, 187, 119))
    /\ fres = <<<<"a", "b", "7">>>>

\* -------------------------------------------------------------------------
\* HSV and the colour depth (SpecDepthHsv)
\* -------------------------------------------------------------------------

\* C28: for every RGB24 colour c, rgb_to_hsv of rgb24_to_rgb48(c) is
\* rgb_to_hsv of c: the same hue, saturation and value.
C28_HsvIgnoresDepth ==
    (last = "to_hsv" /\ rgb # <<>> /\ wide # <<>>)
        => /\ wide[1] = [r |-> 257 * rgb[1].r, g |-> 257 * rgb[1].g,
                         b |-> 257 * rgb[1].b]
           /\ hsv = rgb_to_hsv(as_tuple_f64(rgb[1]))
           /\ hsv.ok
           /\ LET c == hsv.val[1]
                  mx == Max3(rgb[1].r, rgb[1].g, rgb[1].b)
                  mn == Min3(rgb[1].r, rgb[1].g, rgb[1].b)
              IN /\ c.v = Rat(mx, CHANNEL_MAX)
                 /\ c.s = IF mx = 0 THEN AsF64(0) ELSE Rat(mx - mn, mx)

C28_Witness ==
    /\ last = "to_hsv"
    /\ rgb = <<from_rgb(16, 32, 48)>>
    /\ wide = <<rgb48_from_rgb(4112, 8224, 12336)>>
    /\ hsv = Returned([h |-> AsF64(210), s |-> Rat(2, 3), v |-> Rat(48, 255)])

\* -------------------------------------------------------------------------
\* White and black across the conversion to HSV (SpecShade)
\* -------------------------------------------------------------------------

\* Every channel of the colour converted has the value x.
AllChannels(x) ==
    LET c == SourceColour IN c.r = x /\ c.g = x /\ c.b = x

\* C29: for every RGB24 and RGB48 colour c, c.to_hsv().is_white() holds
\* exactly when c.is_white() holds, which is when every channel is the
\* maximum, and c.to_hsv().is_black() holds exactly when c.is_black()
\* holds, which is when every channel is 0.
C29_ShadePreserved ==
    /\ last = "is_white"
        => /\ fres[1] = fres[2]
           /\ fres[2] <=> AllChannels(SourceMax)
    /\ last = "is_black"
        => /\ fres[1] = fres[2]
           /\ fres[2] <=> AllChannels(0)

C29_Witness ==
    /\ last = "is_white"
    /\ wide = <<rgb48_from_rgb(65534, 65534, 65534)>>
    /\ hsv = Returned([h |-> AsF64(0), s |-> AsF64(0), v |-> Rat(65534, 65535)])
    /\ fres = <<FALSE, FALSE>>

\* -------------------------------------------------------------------------
\* The order of the assertions of from_hsv (SpecHsv)
\* -------------------------------------------------------------------------

\* C30: from_hsv makes the NaN check before the check that h is finite: the
\* call fails with the NaN message exactly when an argument is NaN, also
\* when h is infinite or h itself is NaN, and fails with the message that h
\* must be finite exactly when h is infinite and neither s nor v is NaN.
C30_NanCheckFirst ==
    last = "from_hsv"
        => /\ (hsv = Panicked(NanMessage))
                <=> (\E i \in 1..3 : is_nan(fargs[i]))
           /\ (hsv = Panicked(HueMessage))
                <=> (is_infinite(fargs[1]) /\ ~is_nan(fargs[2])
                        /\ ~is_nan(fargs[3]))

C30_Witness ==
    /\ last = "from_hsv"
    /\ fargs = <<INFINITY, NAN, AsF64(0)>>
    /\ hsv = Panicked(NanMessage)

====
